---- MODULE Spec2Model ----
(***************************************************************************)
(* A model of the TDF trust pipeline (tdf-core): signing payloads and      *)
(* signature verification, batch verification with revocation, the         *)
(* multi-party signing session, and the archive build / verify pipeline    *)
(* with its Merkle tree.                                                   *)
(*                                                                         *)
(* Byte strings are sequences of byte values; text is the sequence of its  *)
(* ASCII codes.  SHA-256 and the signature primitives are ideal: a digest  *)
(* is its preimage, and a signature is the pair (verifying key, message),  *)
(* so two digests are equal exactly when the hashed bytes are equal and a  *)
(* signature verifies exactly under the signer's key on the signed bytes.  *)
(***************************************************************************)
EXTENDS Integers, Sequences, FiniteSets, TLC

VARIABLES
    docSig,        \* signature.rs: the DocumentSignature under examination
    signedSig,     \* signature.rs: that signature as the signer produced it
    sigCheck,      \* signature.rs: outcome of the last verify_* call on docSig
    session,       \* multiparty.rs: MultiPartySigningSession
    keyring,       \* the (signer id, verifying key) lists a caller supplies
    lastAdd,       \* multiparty.rs: the last add-signature call and its outcome
    now,           \* the wall clock read by Utc::now()
    revList,       \* revocation.rs: a RevocationList its owner maintains
    manager,       \* revocation.rs: RevocationManager (its unsigned lists)
    batch,         \* signature.rs: last verify_signature_block_mixed call
    builder,       \* archive.rs: ArchiveBuilder (its document and assets)
    built,         \* archive.rs: outcome of the last build and the root it computed
    archive,       \* the archive file: its entries
    tampered,      \* the entry changed since the archive was written
    report,        \* archive.rs: outcome of the last verify_with_config
    opened,        \* archive.rs: outcome of the last ArchiveReader::read
    signedList,    \* revocation.rs: the SignedRevocationList under examination
    issuedList,    \* revocation.rs: that list as its authority last signed it
    registry,      \* revocation.rs: RevocationManager (trusted authorities, signed lists)
    authOp,        \* revocation.rs: the last signed-list call and its outcome
    whitelist,     \* whitelist.rs: SignerWhitelist (its trusted_signers)
    wlCheck,       \* whitelist.rs: the last validate call and its outcome
    clock,         \* the monotonic clock read by Instant::now()
    breaker,       \* resource_limits.rs: CircuitBreaker
    callers,       \* the threads calling the breaker: where each one stands
    brOp,          \* resource_limits.rs: the last completed breaker call
    limiter,       \* resource_limits.rs: RateLimiter
    acquirers,     \* the threads calling try_acquire: where each one stands
    workflow,      \* multiparty.rs: SigningWorkflow
    wfOp           \* multiparty.rs: the last SigningWorkflow::add_signature call

vars == <<docSig, signedSig, sigCheck, session, keyring, lastAdd, now, revList, manager,
          batch, builder, built, archive, tampered, report, opened,
          signedList, issuedList, registry, authOp,
          whitelist, wlCheck, clock, breaker, callers, brOp, limiter, acquirers,
          workflow, wfOp>>

sigVars     == <<docSig, signedSig, sigCheck>>
sessionVars == <<session, keyring, lastAdd>>
batchVars   == <<now, revList, manager, batch>>
archiveVars == <<builder, built, archive, tampered, report, opened>>
authorityVars == <<signedList, issuedList, registry, authOp>>
whitelistVars == <<whitelist, wlCheck>>
breakerVars == <<clock, breaker, callers, brOp>>
limiterVars == <<limiter, acquirers>>
workflowVars == <<workflow, wfOp>>
serviceVars == <<whitelistVars, breakerVars, limiterVars, workflowVars>>
coreVars == <<sigVars, sessionVars, batchVars, archiveVars, authorityVars>>

(***************************************************************************)
(* Bounds of the model.                                                    *)
(***************************************************************************)
MaxTime == 1
MaxSections == 2
MaxRequired == 2
MaxEntries == 2
MaxBlock == 2
MaxBuilds == 2
MaxTrusted == 2
MaxClock == 3
MaxFailures == 3
MaxTrials == 2
MaxAcquires == 4

Times == 0..MaxTime

(***************************************************************************)
(* Text and byte helpers.                                                  *)
(***************************************************************************)
RECURSIVE Concat(_)
Concat(parts) ==
    IF parts = <<>> THEN <<>> ELSE Head(parts) \o Concat(Tail(parts))

\* Byte-wise lexicographic order, the order of Rust's String / Vec<u8>.
RECURSIVE LexLess(_, _)
LexLess(a, b) ==
    IF a = <<>> THEN b # <<>>
    ELSE IF b = <<>> THEN FALSE
    ELSE IF Head(a) # Head(b) THEN Head(a) < Head(b)
    ELSE LexLess(Tail(a), Tail(b))

RECURSIVE InsertSorted(_, _)
InsertSorted(x, s) ==
    IF s = <<>> THEN <<x>>
    ELSE IF LexLess(x, Head(s)) THEN <<x>> \o s
    ELSE <<Head(s)>> \o InsertSorted(x, Tail(s))

RECURSIVE SortStrings(_)
SortStrings(s) ==
    IF s = <<>> THEN <<>> ELSE InsertSorted(Head(s), SortStrings(Tail(s)))

Comma == <<44>>

RECURSIVE JoinComma(_)
JoinComma(s) ==
    IF s = <<>> THEN <<>>
    ELSE IF Len(s) = 1 THEN Head(s)
    ELSE Head(s) \o Comma \o JoinComma(Tail(s))

HexDigit(n) == IF n < 10 THEN 48 + n ELSE 87 + n

RECURSIVE HexEncode(_)
HexEncode(bytes) ==
    IF bytes = <<>> THEN <<>>
    ELSE <<HexDigit(Head(bytes) \div 16), HexDigit(Head(bytes) % 16)>>
         \o HexEncode(Tail(bytes))

\* DateTime<Utc>::to_rfc3339 for the instants 2000-01-01T00:00:0t, t in Times.
Rfc3339(t) ==
    <<50,48,48,48,45,48,49,45,48,49,84,48,48,58,48,48,58,48, 48 + t,
      43,48,48,58,48,48>>

(***************************************************************************)
(* Signature objects (signature.rs).                                       *)
(***************************************************************************)
SIGNATURE_VERSION_CURRENT == 2
SIGNATURE_VERSION_LEGACY == 1

SignatureAlgorithm == {"Ed25519", "Secp256k1", "RsaPss"}

StrSigV2      == <<84,68,70,45,83,73,71,78,65,84,85,82,69,45,86,50,58>>
StrFull       == <<102,117,108,108>>
StrContentOnly == <<99,111,110,116,101,110,116,45,111,110,108,121>>
StrSections   == <<115,101,99,116,105,111,110,115,58>>

ScopeFull == [kind |-> "Full", ids |-> <<>>]
ScopeContentOnly == [kind |-> "ContentOnly", ids |-> <<>>]
ScopeSections(ids) == [kind |-> "Sections", ids |-> ids]

\* Section ids a caller may name: "a", "b" and "a,b".
SectionIds == {<<97>>, <<98>>, <<97,44,98>>}

SeqsUpTo(S, n) == UNION {[1..k -> S] : k \in 1..n}

Scopes == {ScopeFull, ScopeContentOnly}
          \cup {ScopeSections(ids) : ids \in SeqsUpTo(SectionIds, MaxSections)}

\* Signer ids "a" and "b"; the 32-byte roots are one byte wide here.
SignerIds == {<<97>>, <<98>>}
Roots == {<<170>>, <<187>>}
SigningKeys == {"k1", "k2"}
VerifyingKeyOf(k) == <<"pub", k>>
VerifyingKeys == {VerifyingKeyOf(k) : k \in SigningKeys}

ScopeCanonical(scope) ==
    IF scope.kind = "Full" THEN StrFull
    ELSE IF scope.kind = "ContentOnly" THEN StrContentOnly
    ELSE StrSections \o JoinComma(SortStrings(scope.ids))

\* SHA-256 over the concatenation of the update() calls.
compute_signing_payload(root_hash, timestamp, signer_id, scope) ==
    Concat(<<StrSigV2, root_hash, Rfc3339(timestamp), signer_id,
             ScopeCanonical(scope)>>)

compute_signing_payload_legacy(root_hash) == root_hash

\* signing_key.sign(payload), base64-encoded: well-formed, 64 bytes.
SignBytes(k, payload) ==
    [wellformed |-> TRUE, key |-> VerifyingKeyOf(k), msg |-> payload]

\* A signature field that does not decode to 64 bytes.
GarbledBytes == [wellformed |-> FALSE, key |-> <<"pub", "none">>, msg |-> <<>>]

\* verifying_key.verify(payload, sig)
VerifyBytes(vk, payload, sigbytes) ==
    sigbytes.key = vk /\ sigbytes.msg = payload

DocumentSignature(version, id, t, scope, alg, root, sigbytes) ==
    [version |-> version, signer |-> id, time |-> t, scope |-> scope,
     algorithm |-> alg, root_hash |-> HexEncode(root), signature |-> sigbytes]

sign_ed25519(k, root, id, scope, t) ==
    DocumentSignature(SIGNATURE_VERSION_CURRENT, id, t, scope, "Ed25519", root,
                      SignBytes(k, compute_signing_payload(root, t, id, scope)))

sign_secp256k1(k, root, id, scope, t) ==
    DocumentSignature(SIGNATURE_VERSION_CURRENT, id, t, scope, "Secp256k1", root,
                      SignBytes(k, compute_signing_payload(root, t, id, scope)))

\* The payload verification rebuilds, by the signature's own declared version.
VerificationPayload(sig, root) ==
    IF sig.version >= SIGNATURE_VERSION_CURRENT
    THEN compute_signing_payload(root, sig.time, sig.signer, sig.scope)
    ELSE compute_signing_payload_legacy(root)

\* Results: "Ok(true)", "Err(UnsupportedSignatureAlgorithm)", "Err(SignatureFailure)".
VerifyWithAlgorithm(alg, sig, root, vk) ==
    IF sig.algorithm # alg THEN "Err(UnsupportedSignatureAlgorithm)"
    ELSE IF ~sig.signature.wellformed THEN "Err(SignatureFailure)"
    ELSE IF VerifyBytes(vk, VerificationPayload(sig, root), sig.signature)
         THEN "Ok(true)"
         ELSE "Err(SignatureFailure)"

verify_ed25519(sig, root, vk) == VerifyWithAlgorithm("Ed25519", sig, root, vk)

verify_secp256k1(sig, root, vk) == VerifyWithAlgorithm("Secp256k1", sig, root, vk)

NoSig == [version |-> 0, signer |-> <<>>, time |-> 0, scope |-> ScopeFull,
          algorithm |-> "none", root_hash |-> <<>>, signature |-> GarbledBytes]
NoCheck == [root |-> <<>>, key |-> <<"pub", "none">>, result |-> "none"]

(***************************************************************************)
(* Security policy (config.rs).                                            *)
(***************************************************************************)
SecurityConfigDefault ==
    [name |-> "default", max_archive_size |-> 5 * 1024 * 1024,
     max_decompression_ratio |-> 1000, max_file_size |-> 1 * 1024 * 1024,
     max_file_count |-> 1000,
     reject_legacy_merkle |-> TRUE, reject_legacy_signatures |-> TRUE]

SecurityConfigPermissive ==
    [name |-> "permissive", max_archive_size |-> 100 * 1024 * 1024,
     max_decompression_ratio |-> 100000, max_file_size |-> 50 * 1024 * 1024,
     max_file_count |-> 10000,
     reject_legacy_merkle |-> FALSE, reject_legacy_signatures |-> FALSE]

SecurityConfigs == {SecurityConfigDefault, SecurityConfigPermissive}

check_size(config, size) ==
    IF size > config.max_archive_size THEN "Err(FileSizeExceeded)" ELSE "Ok"

check_file_size(config, size) ==
    IF size > config.max_file_size THEN "Err(FileSizeExceeded)" ELSE "Ok"

check_decompression_ratio(config, compressed, uncompressed) ==
    IF uncompressed = 0 THEN "Ok"
    ELSE IF compressed = 0 THEN check_file_size(config, uncompressed)
    ELSE IF uncompressed \div compressed > config.max_decompression_ratio
    THEN "Err(FileSizeExceeded)" ELSE "Ok"

check_file_count(config, count) ==
    IF count > config.max_file_count THEN "Err(SizeExceeded)" ELSE "Ok"

check_merkle_version(config, version) ==
    IF version = 1 /\ config.reject_legacy_merkle
    THEN "Err(PolicyViolation)" ELSE "Ok"

check_signature_version(config, version) ==
    IF version = 1 /\ config.reject_legacy_signatures
    THEN "Err(PolicyViolation)" ELSE "Ok"

(***************************************************************************)
(* Revocation lists and the revocation manager (revocation.rs).            *)
(***************************************************************************)
RevocationEntry(id, t) == [signer_id |-> id, revoked_at |-> t]
NoEntry == [signer_id |-> <<>>, revoked_at |-> -1]

\* A lookup that misses a revocation dated exactly at the checked time.
RECURSIVE list_is_revoked_at_Strict(_, _, _)
list_is_revoked_at_Strict(list, signer_id, check_time) ==
    IF list = <<>> THEN NoEntry
    ELSE IF Head(list).signer_id = signer_id /\ Head(list).revoked_at < check_time
         THEN Head(list)
         ELSE list_is_revoked_at_Strict(Tail(list), signer_id, check_time)

\* iter().find(|e| e.signer_id == signer_id && e.revoked_at <= check_time)
RECURSIVE list_is_revoked_at(_, _, _)
list_is_revoked_at(list, signer_id, check_time) ==
    IF list = <<>> THEN NoEntry
    ELSE IF Head(list).signer_id = signer_id /\ Head(list).revoked_at <= check_time
         THEN Head(list)
         ELSE list_is_revoked_at(Tail(list), signer_id, check_time)

\* stable insertion by revoked_at, most recent first (sort_by b.cmp(a))
RECURSIVE InsertByRevokedAtDesc(_, _)
InsertByRevokedAtDesc(e, list) ==
    IF list = <<>> THEN <<e>>
    ELSE IF Head(list).revoked_at < e.revoked_at THEN <<e>> \o list
    ELSE <<Head(list)>> \o InsertByRevokedAtDesc(e, Tail(list))

\* push, then stable sort of an already sorted list
revoke(list, signer_id, t) == InsertByRevokedAtDesc(RevocationEntry(signer_id, t), list)

\* the manager walks its lists in the order they were added
RECURSIVE manager_is_revoked_at(_, _, _)
manager_is_revoked_at(lists, signer_id, check_time) ==
    IF lists = <<>> THEN NoEntry
    ELSE LET e == list_is_revoked_at(Head(lists), signer_id, check_time)
         IN IF e # NoEntry THEN e
            ELSE manager_is_revoked_at(Tail(lists), signer_id, check_time)

(***************************************************************************)
(* Batch verification of a signature block (signature.rs).                 *)
(***************************************************************************)
NoKey == <<"pub", "none">>

\* keys.iter().find(|(id, _)| *id == signer_id)
RECURSIVE FindKey(_, _)
FindKey(keys, signer_id) ==
    IF keys = <<>> THEN NoKey
    ELSE IF Head(keys)[1] = signer_id THEN Head(keys)[2]
    ELSE FindKey(Tail(keys), signer_id)

\* A VerificationResult: its kind, the timestamp (Valid) or revoked_at
\* (Revoked) it carries, and the reason of an Invalid result.
Result(kind, t) == [kind |-> kind, time |-> t, reason |-> ""]

Invalid(reason) == [kind |-> "Invalid", time |-> 0, reason |-> reason]

\* A batch step that reports a missing key as Unsupported.
VerifyOne_MissingKeyUnsupported(sig, root, ed25519_keys, secp256k1_keys, lists) ==
    LET e == manager_is_revoked_at(lists, sig.signer, sig.time)
        keys == IF sig.algorithm = "Ed25519" THEN ed25519_keys ELSE secp256k1_keys
        key == FindKey(keys, sig.signer)
    IN IF e # NoEntry THEN Result("Revoked", e.revoked_at)
       ELSE IF sig.algorithm = "RsaPss" \/ key = NoKey THEN Result("Unsupported", 0)
       ELSE IF VerifyWithAlgorithm(sig.algorithm, sig, root, key) = "Ok(true)"
            THEN Result("Valid", sig.time)
            ELSE Invalid(VerifyWithAlgorithm(sig.algorithm, sig, root, key))

\* One turn of the loop of verify_signature_block_mixed.
VerifyOne(sig, root, ed25519_keys, secp256k1_keys, lists) ==
    LET e == manager_is_revoked_at(lists, sig.signer, sig.time)
    IN IF e # NoEntry THEN Result("Revoked", e.revoked_at)
       ELSE IF sig.algorithm = "Ed25519" THEN
            LET key == FindKey(ed25519_keys, sig.signer)
            IN IF key = NoKey THEN Invalid("No Ed25519 verifying key found")
               ELSE IF verify_ed25519(sig, root, key) = "Ok(true)"
               THEN Result("Valid", sig.time)
               ELSE Invalid(verify_ed25519(sig, root, key))
       ELSE IF sig.algorithm = "Secp256k1" THEN
            LET key == FindKey(secp256k1_keys, sig.signer)
            IN IF key = NoKey THEN Invalid("No secp256k1 verifying key found")
               ELSE IF verify_secp256k1(sig, root, key) = "Ok(true)"
               THEN Result("Valid", sig.time)
               ELSE Invalid(verify_secp256k1(sig, root, key))
       ELSE Result("Unsupported", 0)

verify_signature_block_mixed(block, root, ed25519_keys, secp256k1_keys, lists) ==
    [i \in 1..Len(block) |->
        VerifyOne(block[i], root, ed25519_keys, secp256k1_keys, lists)]

verify_signature_block_with_revocation(block, root, verifying_keys, lists) ==
    verify_signature_block_mixed(block, root, verifying_keys, <<>>, lists)

(***************************************************************************)
(* Merkle tree (merkle.rs).  A digest is the record of what was hashed:    *)
(* the algorithm, the HMAC key, the domain separator, the data bytes, the  *)
(* root digest whose hex text the data embeds (manifest only), and the     *)
(* child digests.  All digests are 32 bytes wide.                          *)
(***************************************************************************)
MERKLE_MAGIC == <<84, 68, 70, 72>>
MERKLE_VERSION == 2
MERKLE_VERSION_LEGACY == 1
ALGORITHM_SHA256 == 1
ALGORITHM_BLAKE3 == 2
ALGORITHM_SHA3_256 == 3
ALGORITHM_SHA3_512 == 4
LEAF_DOMAIN_SEPARATOR == 0
INTERNAL_DOMAIN_SEPARATOR == 1
MAX_LEAF_COUNT == 1000000
HashSize == 32
HeaderSize == 10

\* File contents: bytes, followed by the hex text of an embedded digest if any.
File(bytes) == [bytes |-> bytes, embedded |-> <<>>]

MerkleTree(algorithm, use_domain_separators) ==
    [algorithm |-> algorithm, use_domain_separators |-> use_domain_separators]

HmacKey(tree, name) == IF tree.algorithm = ALGORITHM_SHA256 THEN name ELSE ""

Separator(tree, sep) == IF tree.use_domain_separators THEN <<sep>> ELSE <<>>

hash_leaf(tree, file) ==
    [alg |-> tree.algorithm, key |-> HmacKey(tree, "TDF-MERKLE-LEAF-KEY-2026"),
     sep |-> Separator(tree, LEAF_DOMAIN_SEPARATOR),
     bytes |-> file.bytes, embedded |-> file.embedded, kids |-> <<>>]

hash_internal(tree, left, right) ==
    [alg |-> tree.algorithm, key |-> HmacKey(tree, "TDF-MERKLE-INTERNAL-KEY-2026"),
     sep |-> Separator(tree, INTERNAL_DOMAIN_SEPARATOR),
     bytes |-> <<>>, embedded |-> <<>>, kids |-> <<left, right>>]

hash_single(tree, data) ==
    [alg |-> tree.algorithm, key |-> HmacKey(tree, "TDF-MERKLE-SINGLE-KEY-2026"),
     sep |-> Separator(tree, INTERNAL_DOMAIN_SEPARATOR),
     bytes |-> <<>>, embedded |-> <<>>, kids |-> <<data>>]

\* hashes.sort(): a fixed total order on the leaf digests of one tree.
RECURSIVE InsertDigest(_, _)
InsertDigest(d, s) ==
    IF s = <<>> THEN <<d>>
    ELSE IF LexLess(d.bytes, Head(s).bytes) THEN <<d>> \o s
    ELSE <<Head(s)>> \o InsertDigest(d, Tail(s))

RECURSIVE SortDigests(_)
SortDigests(s) ==
    IF s = <<>> THEN <<>> ELSE InsertDigest(Head(s), SortDigests(Tail(s)))

RECURSIVE NextLevel(_, _)
NextLevel(tree, hashes) ==
    IF hashes = <<>> THEN <<>>
    ELSE IF Len(hashes) = 1 THEN <<hash_single(tree, hashes[1])>>
    ELSE <<hash_internal(tree, hashes[1], hashes[2])>>
         \o NextLevel(tree, SubSeq(hashes, 3, Len(hashes)))

\* Called with at least one hash: every component map holds the manifest.
RECURSIVE build_tree(_, _)
build_tree(tree, hashes) ==
    IF Len(hashes) = 1 THEN hashes[1] ELSE build_tree(tree, NextLevel(tree, hashes))

LeafHashes(tree, components) ==
    SortDigests([i \in 1..Len(components) |-> hash_leaf(tree, components[i])])

compute_root(tree, components) == build_tree(tree, LeafHashes(tree, components))

\* hashes.bin: the 10 header bytes as fields, then the 32-byte words.
to_binary(tree, root_hash, leaf_hashes) ==
    [magic |-> MERKLE_MAGIC, version |-> MERKLE_VERSION, alg |-> tree.algorithm,
     count |-> Len(leaf_hashes), root |-> root_hash, leaves |-> leaf_hashes]

BinaryLen(bin) == HeaderSize + HashSize + HashSize * Len(bin.leaves)

\* Result: [result, tree, root_hash, leaf_hashes]
NoDigest == [alg |-> 0, key |-> "", sep |-> <<>>, bytes |-> <<>>,
             embedded |-> <<>>, kids |-> <<>>]
FromBinaryErr(e) ==
    [result |-> e, tree |-> MerkleTree(0, FALSE), root_hash |-> NoDigest,
     leaf_hashes |-> <<>>]

from_binary(bin) ==
    IF bin.magic # MERKLE_MAGIC THEN FromBinaryErr("Err(InvalidDocument)")
    ELSE IF bin.version \notin {MERKLE_VERSION_LEGACY, MERKLE_VERSION}
         THEN FromBinaryErr("Err(InvalidDocument)")
    ELSE IF bin.alg \notin {ALGORITHM_SHA256, ALGORITHM_BLAKE3,
                            ALGORITHM_SHA3_256, ALGORITHM_SHA3_512}
         THEN FromBinaryErr("Err(UnsupportedHashAlgorithm)")
    ELSE IF bin.count > MAX_LEAF_COUNT THEN FromBinaryErr("Err(SizeExceeded)")
    ELSE IF BinaryLen(bin) < HeaderSize + HashSize + bin.count * HashSize
         THEN FromBinaryErr("Err(InvalidDocument)")
    ELSE [result |-> "Ok",
          tree |-> MerkleTree(bin.alg, bin.version = MERKLE_VERSION),
          root_hash |-> bin.root,
          leaf_hashes |-> SubSeq(bin.leaves, 1, bin.count)]

\* A verify that reports every tree as matching.
merkle_verify_AlwaysTrue(stored, components) == TRUE

\* MerkleTree::verify: recompute with the stored tree's parameters, ct_eq.
merkle_verify(stored, components) ==
    compute_root(stored.tree, components) = stored.root_hash

(***************************************************************************)
(* The CBOR of the manifest and of the content (serde_cbor, document.rs).  *)
(* The manifest is the map {title, created, root_hash}; the content is the *)
(* map {sections: [text]}.                                                 *)
(***************************************************************************)
KeyTitle == <<116,105,116,108,101>>
KeyCreated == <<99,114,101,97,116,101,100>>
KeyRootHash == <<114,111,111,116,95,104,97,115,104>>
KeySections == <<115,101,99,116,105,111,110,115>>

CborMap(n) == 160 + n
CborArray(n) == 128 + n
CborText(chars) == <<96 + Len(chars)>> \o chars

\* chrono's DateTime<Utc> serialisation of the instant 2000-01-01T00:00:0t.
DateString(t) ==
    <<50,48,48,48,45,48,49,45,48,49,84,48,48,58,48,48,58,48, 48 + t, 90>>

\* chrono's DateTime<Utc> parse: 'T', 't' or ' ' between date and time, 'Z'
\* or 'z' for the zone.  -1 when the text is not a date.
ParseDate(chars) ==
    IF /\ Len(chars) = 20
       /\ SubSeq(chars, 1, 10) = SubSeq(DateString(0), 1, 10)
       /\ chars[11] \in {84, 116, 32}
       /\ SubSeq(chars, 12, 18) = SubSeq(DateString(0), 12, 18)
       /\ chars[19] \in 48..57
       /\ chars[20] \in {90, 122}
    THEN chars[19] - 48 ELSE -1

\* serde_cbor::to_vec(&manifest): an empty root_hash is the empty text.
manifest_to_vec(manifest) ==
    [bytes |-> <<CborMap(3)>> \o CborText(KeyTitle) \o CborText(manifest.title)
               \o CborText(KeyCreated) \o CborText(DateString(manifest.created))
               \o CborText(KeyRootHash)
               \o (IF manifest.root_hash = <<>> THEN CborText(<<>>) ELSE <<>>),
     embedded |-> manifest.root_hash]

\* A definite-length text (major type 3) or byte (major type 2) string of
\* fewer than 24 bytes at position pos.
IsString(bytes, pos) ==
    /\ pos <= Len(bytes)
    /\ (bytes[pos] \div 32) \in {2, 3}
    /\ bytes[pos] % 32 < 24
    /\ pos + (bytes[pos] % 32) <= Len(bytes)

StringChars(bytes, pos) == SubSeq(bytes, pos + 1, pos + (bytes[pos] % 32))
StringEnd(bytes, pos) == pos + (bytes[pos] % 32) + 1
IsText(bytes, pos) == bytes[pos] \div 32 = 3

ManifestErr == [ok |-> FALSE, title |-> <<>>, created |-> -1, root_hash |-> <<>>,
                seen |-> {}]

\* The struct visitor over n remaining map entries from position pos: keys
\* are text or byte strings, unknown keys are skipped, a repeated or missing
\* field is an error, String accepts text or bytes, DateTime text only.
RECURSIVE ParseManifestFields(_, _, _, _)
ParseManifestFields(file, pos, n, acc) ==
    LET bytes == file.bytes IN
    IF n = 0 THEN
        IF pos = Len(bytes) + 1 /\ acc.seen = {"title", "created", "root_hash"}
        THEN acc ELSE ManifestErr
    ELSE IF ~IsString(bytes, pos) THEN ManifestErr
    ELSE LET key == StringChars(bytes, pos)
             v == StringEnd(bytes, pos)
             atEmbedded == v = Len(bytes) + 1 /\ file.embedded # <<>>
         IN IF key = KeyRootHash THEN
                IF "root_hash" \in acc.seen THEN ManifestErr
                ELSE IF atEmbedded THEN
                    ParseManifestFields(file, v, n - 1,
                        [acc EXCEPT !.root_hash = file.embedded,
                                    !.seen = @ \cup {"root_hash"}])
                ELSE IF IsString(bytes, v) /\ bytes[v] % 32 = 0 THEN
                    ParseManifestFields(file, v + 1, n - 1,
                        [acc EXCEPT !.seen = @ \cup {"root_hash"}])
                ELSE ManifestErr
            ELSE IF atEmbedded THEN ParseManifestFields(file, v, n - 1, acc)
            ELSE IF ~IsString(bytes, v) THEN ManifestErr
            ELSE IF key = KeyTitle THEN
                IF "title" \in acc.seen THEN ManifestErr
                ELSE ParseManifestFields(file, StringEnd(bytes, v), n - 1,
                        [acc EXCEPT !.title = StringChars(bytes, v),
                                    !.seen = @ \cup {"title"}])
            ELSE IF key = KeyCreated THEN
                IF \/ "created" \in acc.seen
                   \/ ~IsText(bytes, v)
                   \/ ParseDate(StringChars(bytes, v)) = -1
                THEN ManifestErr
                ELSE ParseManifestFields(file, StringEnd(bytes, v), n - 1,
                        [acc EXCEPT !.created = ParseDate(StringChars(bytes, v)),
                                    !.seen = @ \cup {"created"}])
            ELSE ParseManifestFields(file, StringEnd(bytes, v), n - 1, acc)

\* serde_cbor::from_slice::<Manifest>
manifest_from_slice(file) ==
    IF file.bytes = <<>> \/ file.bytes[1] # CborMap(3) THEN ManifestErr
    ELSE ParseManifestFields(file, 2, 3,
            [ok |-> TRUE, title |-> <<>>, created |-> -1, root_hash |-> <<>>,
             seen |-> {}])

\* serde_cbor::to_vec(&content)
content_to_vec(section) ==
    File(<<CborMap(1)>> \o CborText(KeySections) \o <<CborArray(1)>>
         \o CborText(section))

\* serde_cbor::from_slice::<DocumentContent> succeeds
content_parses(file) ==
    LET bytes == file.bytes IN
    /\ file.embedded = <<>>
    /\ Len(bytes) >= 1 /\ bytes[1] = CborMap(1)
    /\ IsString(bytes, 2) /\ StringChars(bytes, 2) = KeySections
    /\ StringEnd(bytes, 2) <= Len(bytes)
    /\ bytes[StringEnd(bytes, 2)] = CborArray(1)
    /\ IsString(bytes, StringEnd(bytes, 2) + 1)
    /\ StringEnd(bytes, StringEnd(bytes, 2) + 1) = Len(bytes) + 1

(***************************************************************************)
(* One signature: signed, possibly altered in transit, verified.           *)
(***************************************************************************)
IdleSig == docSig = NoSig /\ signedSig = NoSig /\ sigCheck = NoCheck
IdleSession == session = <<>> /\ keyring = <<>> /\ lastAdd = <<>>
IdleArchive ==
    /\ builder = <<>> /\ built = <<>> /\ archive = <<>>
    /\ tampered = "none" /\ report = <<>> /\ opened = <<>>
IdleBatch == now = 0 /\ revList = <<>> /\ manager = <<>> /\ batch = <<>>
IdleAuthority ==
    signedList = <<>> /\ issuedList = <<>> /\ registry = <<>> /\ authOp = <<>>
IdleWhitelist == whitelist = <<>> /\ wlCheck = <<>>
IdleBreaker == clock = 0 /\ breaker = <<>> /\ callers = <<>> /\ brOp = <<>>
IdleLimiter == limiter = <<>> /\ acquirers = <<>>
IdleWorkflow == workflow = <<>> /\ wfOp = <<>>
IdleService == IdleWhitelist /\ IdleBreaker /\ IdleLimiter /\ IdleWorkflow
IdleCore == IdleSig /\ IdleSession /\ IdleBatch /\ IdleArchive /\ IdleAuthority

SignEd25519 ==
    /\ docSig = NoSig
    /\ \E k \in SigningKeys, r \in Roots, id \in SignerIds, sc \in Scopes, t \in Times :
        /\ docSig' = sign_ed25519(k, r, id, sc, t)
        /\ signedSig' = docSig'
    /\ sigCheck' = NoCheck
    /\ UNCHANGED <<serviceVars, authorityVars, sessionVars, batchVars, archiveVars>>

SignSecp256k1 ==
    /\ docSig = NoSig
    /\ \E k \in SigningKeys, r \in Roots, id \in SignerIds, sc \in Scopes, t \in Times :
        /\ docSig' = sign_secp256k1(k, r, id, sc, t)
        /\ signedSig' = docSig'
    /\ sigCheck' = NoCheck
    /\ UNCHANGED <<serviceVars, authorityVars, sessionVars, batchVars, archiveVars>>

\* A version-1 signature read from a signature block: the key signed the raw root.
LoadLegacySignature ==
    /\ docSig = NoSig
    /\ \E k \in SigningKeys, r \in Roots, id \in SignerIds, t \in Times :
        /\ docSig' = DocumentSignature(SIGNATURE_VERSION_LEGACY, id, t, ScopeFull,
                                       "Ed25519", r,
                                       SignBytes(k, compute_signing_payload_legacy(r)))
        /\ signedSig' = docSig'
    /\ sigCheck' = NoCheck
    /\ UNCHANGED <<serviceVars, authorityVars, sessionVars, batchVars, archiveVars>>

\* The stored signature's timestamp.time, signer.id or scope is rewritten.
AlterSignature ==
    /\ docSig # NoSig
    /\ docSig = signedSig
    /\ \E id \in SignerIds, sc \in Scopes, t \in Times :
        /\ <<id, sc, t>> # <<docSig.signer, docSig.scope, docSig.time>>
        /\ docSig' = [docSig EXCEPT !.signer = id, !.scope = sc, !.time = t]
    /\ sigCheck' = NoCheck
    /\ UNCHANGED <<serviceVars, authorityVars, signedSig, sessionVars, batchVars, archiveVars>>

VerifyEd25519 ==
    /\ docSig # NoSig
    /\ \E vk \in VerifyingKeys, r \in Roots :
        sigCheck' = [root |-> r, key |-> vk, result |-> verify_ed25519(docSig, r, vk)]
    /\ UNCHANGED <<serviceVars, authorityVars, docSig, signedSig, sessionVars, batchVars, archiveVars>>

VerifySecp256k1 ==
    /\ docSig # NoSig
    /\ \E vk \in VerifyingKeys, r \in Roots :
        sigCheck' = [root |-> r, key |-> vk, result |-> verify_secp256k1(docSig, r, vk)]
    /\ UNCHANGED <<serviceVars, authorityVars, docSig, signedSig, sessionVars, batchVars, archiveVars>>

InitSig == IdleSig /\ IdleSession /\ IdleBatch /\ IdleArchive /\ IdleAuthority /\ IdleService

NextSig ==
    \/ SignEd25519
    \/ SignSecp256k1
    \/ LoadLegacySignature
    \/ AlterSignature
    \/ VerifyEd25519
    \/ VerifySecp256k1

SpecSig == InitSig /\ [][NextSig]_vars

\* C4: for a version-2 signature that verifies over a root under a key,
\* rewriting timestamp.time, signer.id or scope to any different value makes
\* verification over that root under that key fail.
C4_AlteredSignatureFails ==
    ( /\ signedSig.version = SIGNATURE_VERSION_CURRENT
      /\ docSig # signedSig
      /\ sigCheck # NoCheck
      /\ VerifyBytes(sigCheck.key,
                     compute_signing_payload(sigCheck.root, signedSig.time,
                                             signedSig.signer, signedSig.scope),
                     signedSig.signature) )
    => sigCheck.result # "Ok(true)"

\* C7: a signature whose version the default policy rejects (version 1) is
\* never accepted by verification.
C7_LegacySignatureNeverAccepted ==
    ( /\ sigCheck # NoCheck
      /\ check_signature_version(SecurityConfigDefault, docSig.version) # "Ok" )
    => sigCheck.result # "Ok(true)"

(***************************************************************************)
(* Multi-party signing session (multiparty.rs).                            *)
(***************************************************************************)
SessionRoot == <<170>>
OtherRoot == <<187>>

\* Each signer's own key pair.
OwnKey(id) == IF id = <<97>> THEN "k1" ELSE "k2"

OrderUnordered == [kind |-> "Unordered", list |-> <<>>]
OrderSimultaneous == [kind |-> "Simultaneous", list |-> <<>>]
OrderOrdered(list) == [kind |-> "Ordered", list |-> list]

SigningOrders ==
    {OrderUnordered, OrderSimultaneous,
     OrderOrdered(<<<<97>>, <<98>>>>), OrderOrdered(<<<<98>>, <<97>>>>)}

\* MultiPartySigningSession::new for the lists of at most MaxRequired signer ids.
RequiredLists == {<<>>} \cup SeqsUpTo(SignerIds, MaxRequired)

new(root_hash, order, required_signers) ==
    [root_hash |-> root_hash, order |-> order, signatures |-> <<>>,
     required_signers |-> required_signers]

\* An RSA-PSS signature object: no signing routine exists for it.
RsaPssSignature(id, t) ==
    DocumentSignature(SIGNATURE_VERSION_CURRENT, id, t, ScopeFull, "RsaPss",
                      SessionRoot, GarbledBytes)

\* Signature objects offered to a session: each signer's own Ed25519
\* signature over the session root or over another document's root, at any
\* time, and the signer's secp256k1 signature and an RSA-PSS object at time 0.
OfferedSignatures ==
    UNION {{sign_ed25519(OwnKey(id), SessionRoot, id, ScopeFull, t),
            sign_ed25519(OwnKey(id), OtherRoot, id, ScopeFull, t)} :
              id \in SignerIds, t \in Times}
    \cup UNION {{sign_secp256k1(OwnKey(id), SessionRoot, id, ScopeFull, 0),
                 RsaPssSignature(id, 0)} : id \in SignerIds}

SeqContains(seq, x) == \E i \in 1..Len(seq) : seq[i] = x

\* order.iter().position(|id| *id == signer_id); 0-based, -1 for None
Position(seq, x) ==
    IF SeqContains(seq, x)
    THEN (CHOOSE i \in 1..Len(seq) : seq[i] = x /\ \A j \in 1..(i - 1) : seq[j] # x) - 1
    ELSE -1

AddResult(sess, result) == [session |-> sess, result |-> result]

\* An add that skips the position check of Ordered mode.
add_signature_AnyPosition(sess, sig) ==
    IF ~SeqContains(sess.required_signers, sig.signer)
    THEN AddResult(sess, "Err(SignatureFailure)")
    ELSE IF \E i \in 1..Len(sess.signatures) : sess.signatures[i].signer = sig.signer
    THEN AddResult(sess, "Err(SignatureFailure)")
    ELSE AddResult([sess EXCEPT !.signatures = Append(@, sig)], "Ok")

\* An add that skips the already-signed check.
add_signature_AllowRepeat(sess, sig) ==
    IF ~SeqContains(sess.required_signers, sig.signer)
    THEN AddResult(sess, "Err(SignatureFailure)")
    ELSE IF /\ sess.order.kind = "Ordered"
            /\ Position(sess.order.list, sig.signer) # Len(sess.signatures)
    THEN AddResult(sess, "Err(SignatureFailure)")
    ELSE AddResult([sess EXCEPT !.signatures = Append(@, sig)], "Ok")

\* An add that skips the required-signer check.
add_signature_AnySigner(sess, sig) ==
    IF \E i \in 1..Len(sess.signatures) : sess.signatures[i].signer = sig.signer
    THEN AddResult(sess, "Err(SignatureFailure)")
    ELSE IF /\ sess.order.kind = "Ordered"
            /\ Position(sess.order.list, sig.signer) # Len(sess.signatures)
    THEN AddResult(sess, "Err(SignatureFailure)")
    ELSE AddResult([sess EXCEPT !.signatures = Append(@, sig)], "Ok")

add_signature(sess, sig) ==
    IF ~SeqContains(sess.required_signers, sig.signer)
    THEN AddResult(sess, "Err(SignatureFailure)")
    ELSE IF \E i \in 1..Len(sess.signatures) : sess.signatures[i].signer = sig.signer
    THEN AddResult(sess, "Err(SignatureFailure)")
    ELSE IF /\ sess.order.kind = "Ordered"
            /\ Position(sess.order.list, sig.signer) # Len(sess.signatures)
    THEN AddResult(sess, "Err(SignatureFailure)")
    ELSE AddResult([sess EXCEPT !.signatures = Append(@, sig)], "Ok")

\* A re-verification that lets an Unsupported prior result pass.
RECURSIVE ExistingResultsError_IgnoreUnsupported(_)
ExistingResultsError_IgnoreUnsupported(results) ==
    IF results = <<>> THEN "Ok"
    ELSE IF Head(results).kind \in {"Valid", "Unsupported"}
         THEN ExistingResultsError_IgnoreUnsupported(Tail(results))
    ELSE IF Head(results).kind = "Invalid" THEN "Err(SignatureFailure)"
    ELSE "Err(RevokedKey)"

\* The first non-Valid result of the re-verification of the existing
\* signatures decides the error; "Ok" when all are Valid.
RECURSIVE ExistingResultsError(_)
ExistingResultsError(results) ==
    IF results = <<>> THEN "Ok"
    ELSE IF Head(results).kind = "Valid" THEN ExistingResultsError(Tail(results))
    ELSE IF Head(results).kind = "Invalid" THEN "Err(SignatureFailure)"
    ELSE IF Head(results).kind = "Revoked" THEN "Err(RevokedKey)"
    ELSE "Err(UnsupportedSignatureAlgorithm)"

\* A verified add that stores the new signature before checking it.
add_signature_verified_StoreBeforeCheck(sess, sig, new_key, existing_keys, lists) ==
    LET existing == ExistingResultsError(
                        verify_signature_block_with_revocation(
                            sess.signatures, sess.root_hash, existing_keys, lists))
        fresh == verify_ed25519(sig, sess.root_hash, new_key)
    IN IF existing # "Ok" THEN AddResult(sess, existing)
       ELSE IF fresh # "Ok(true)"
       THEN AddResult([sess EXCEPT !.signatures = Append(@, sig)], fresh)
       ELSE add_signature(sess, sig)

add_signature_verified(sess, sig, new_key, existing_keys, lists) ==
    LET existing == ExistingResultsError(
                        verify_signature_block_with_revocation(
                            sess.signatures, sess.root_hash, existing_keys, lists))
        fresh == verify_ed25519(sig, sess.root_hash, new_key)
    IN IF existing # "Ok" THEN AddResult(sess, existing)
       ELSE IF fresh # "Ok(true)" THEN AddResult(sess, fresh)
       ELSE add_signature(sess, sig)

add_signature_verified_mixed(sess, sig, ed25519_keys, secp256k1_keys, lists) ==
    LET existing == ExistingResultsError(
                        verify_signature_block_mixed(
                            sess.signatures, sess.root_hash,
                            ed25519_keys, secp256k1_keys, lists))
        keys == IF sig.algorithm = "Ed25519" THEN ed25519_keys ELSE secp256k1_keys
        key == FindKey(keys, sig.signer)
        fresh == IF sig.algorithm = "RsaPss" THEN "Err(UnsupportedSignatureAlgorithm)"
                 ELSE IF key = NoKey THEN "Err(SignatureFailure)"
                 ELSE IF sig.algorithm = "Ed25519"
                      THEN verify_ed25519(sig, sess.root_hash, key)
                      ELSE verify_secp256k1(sig, sess.root_hash, key)
    IN IF existing # "Ok" THEN AddResult(sess, existing)
       ELSE IF fresh # "Ok(true)" THEN AddResult(sess, fresh)
       ELSE add_signature(sess, sig)

is_complete(sess) == Len(sess.signatures) = Len(sess.required_signers)

\* An order validation that also rejects equal timestamps.
RECURSIVE ValidateOrderFrom_RejectEqual(_, _)
ValidateOrderFrom_RejectEqual(sigs, prev_time) ==
    IF sigs = <<>> THEN TRUE
    ELSE IF prev_time # -1 /\ Head(sigs).time <= prev_time THEN FALSE
    ELSE ValidateOrderFrom_RejectEqual(Tail(sigs), Head(sigs).time)

\* validate_signature_order: the loop over the signatures with prev_time
\* (-1 for None); TRUE for Ok(()).
RECURSIVE ValidateOrderFrom(_, _)
ValidateOrderFrom(sigs, prev_time) ==
    IF sigs = <<>> THEN TRUE
    ELSE IF prev_time # -1 /\ Head(sigs).time < prev_time THEN FALSE
    ELSE ValidateOrderFrom(Tail(sigs), Head(sigs).time)

validate_signature_order(sess) == ValidateOrderFrom(sess.signatures, -1)

\* A pre-validation that also rejects a timestamp equal to the last one.
would_maintain_order_Strict(sess, new_timestamp) ==
    IF sess.signatures # <<>>
    THEN new_timestamp > sess.signatures[Len(sess.signatures)].time
    ELSE TRUE

would_maintain_order(sess, new_timestamp) ==
    IF sess.signatures # <<>>
    THEN new_timestamp >= sess.signatures[Len(sess.signatures)].time
    ELSE TRUE

\* The key lists a caller holds, for the signers listed.
KeyList(ids) == [i \in 1..Len(ids) |-> <<ids[i], VerifyingKeyOf(OwnKey(ids[i]))>>]
Keyring(ids) == [ed25519 |-> KeyList(ids), secp256k1 |-> KeyList(ids)]
FullKeyring == Keyring(<<<<97>>, <<98>>>>)

\* What the callers of a session hold: every signer's keys and no revocation,
\* every signer's keys and a list in which "b" was revoked at time 1, or
\* only "a"'s keys and no revocation.
SessionEnvironments ==
    {[keyring |-> FullKeyring, manager |-> <<>>],
     [keyring |-> FullKeyring, manager |-> <<revoke(<<>>, <<98>>, 1)>>],
     [keyring |-> Keyring(<<<<97>>>>), manager |-> <<>>]}

NoAdd == [op |-> "none", signer |-> <<>>, result |-> "none"]

InitSession ==
    /\ IdleSig
    /\ IdleArchive
    /\ IdleAuthority /\ IdleService
    /\ now = 0 /\ revList = <<>> /\ batch = <<>>
    /\ \E env \in SessionEnvironments :
          keyring = env.keyring /\ manager = env.manager
    /\ \E order \in SigningOrders, required \in RequiredLists :
          session = new(SessionRoot, order, required)
    /\ lastAdd = NoAdd

AddSignature ==
    /\ \E sig \in OfferedSignatures :
          LET r == add_signature(session, sig)
          IN /\ session' = r.session
             /\ lastAdd' = [op |-> "add_signature", signer |-> sig.signer,
                             result |-> r.result]
    /\ UNCHANGED <<serviceVars, authorityVars, sigVars, keyring, batchVars, archiveVars>>

AddSignatureVerified ==
    /\ \E sig \in OfferedSignatures, new_key \in VerifyingKeys :
          LET r == add_signature_verified(session, sig, new_key,
                                          keyring.ed25519, manager)
          IN /\ session' = r.session
             /\ lastAdd' = [op |-> "add_signature_verified", signer |-> sig.signer,
                             result |-> r.result]
    /\ UNCHANGED <<serviceVars, authorityVars, sigVars, keyring, batchVars, archiveVars>>

AddSignatureVerifiedMixed ==
    /\ \E sig \in OfferedSignatures :
          LET r == add_signature_verified_mixed(session, sig, keyring.ed25519,
                                                keyring.secp256k1, manager)
          IN /\ session' = r.session
             /\ lastAdd' = [op |-> "add_signature_verified_mixed", signer |-> sig.signer,
                             result |-> r.result]
    /\ UNCHANGED <<serviceVars, authorityVars, sigVars, keyring, batchVars, archiveVars>>

NextSession ==
    \/ AddSignature
    \/ AddSignatureVerified
    \/ AddSignatureVerifiedMixed

SpecSession == InitSession /\ [][NextSession]_vars

Chronological(sigs) ==
    \A i \in 1..(Len(sigs) - 1) : sigs[i].time <= sigs[i + 1].time

\* C5 (as stated): after any sequence of add-signature operations the stored
\* signatures are in non-decreasing timestamp order.
C5_StoredSignaturesChronological == Chronological(session.signatures)

\* C5 (amended): the add operations accept any timestamp; the stored
\* signatures are in non-decreasing timestamp order exactly when
\* validate_signature_order() returns Ok.
C5_ValidateOrderIffChronological ==
    validate_signature_order(session) <=> Chronological(session.signatures)

C5_OutOfOrderStored ==
    /\ Len(session.signatures) = 2
    /\ session.signatures[1].time > session.signatures[2].time
    /\ lastAdd.result = "Ok"
    /\ ~validate_signature_order(session)

SignedIds(sess) == {sess.signatures[i].signer : i \in 1..Len(sess.signatures)}
RequiredIds(sess) == {sess.required_signers[i] : i \in 1..Len(sess.required_signers)}

\* C9: is_complete() is true exactly when the set of signer ids that have
\* signed equals the set of required signer ids.
C9_CompleteIffSignerSetsEqual ==
    is_complete(session) <=> (SignedIds(session) = RequiredIds(session))

\* A prior signature is good for a verified add when no revocation entry of
\* its signer is dated at or before its timestamp, its algorithm has a
\* supplied key for its signer, and its bytes are that key's signature over
\* the payload of the session root and the signature's own fields.
PriorIsGood(sig, root, ed25519_keys, secp256k1_keys, lists) ==
    /\ ~\E l \in 1..Len(lists) : \E j \in 1..Len(lists[l]) :
            /\ lists[l][j].signer_id = sig.signer
            /\ lists[l][j].revoked_at <= sig.time
    /\ sig.algorithm \in {"Ed25519", "Secp256k1"}
    /\ LET keys == IF sig.algorithm = "Ed25519" THEN ed25519_keys ELSE secp256k1_keys
       IN \E i \in 1..Len(keys) :
            /\ keys[i][1] = sig.signer
            /\ \A j \in 1..(i - 1) : keys[j][1] # sig.signer
            /\ sig.signature.wellformed
            /\ sig.signature.key = keys[i][2]
            /\ sig.signature.msg =
                 IF sig.version >= 2
                 THEN StrSigV2 \o root \o Rfc3339(sig.time) \o sig.signer
                      \o ScopeCanonical(sig.scope)
                 ELSE root

PriorsAllGood(sess, op) ==
    \A i \in 1..Len(sess.signatures) :
        PriorIsGood(sess.signatures[i], sess.root_hash, keyring.ed25519,
                    IF op = "add_signature_verified_mixed"
                    THEN keyring.secp256k1 ELSE <<>>,
                    manager)

VerifiedOps == {"add_signature_verified", "add_signature_verified_mixed"}

\* C10: a verified add (single-algorithm or mixed) adds the new signature
\* only if every signature already in the session is good against the
\* session root with the supplied keys; otherwise it fails and the session's
\* signatures are left as they were.
C10_VerifiedAddRequiresGoodPriors ==
    [][ lastAdd'.op \in VerifiedOps =>
          /\ (lastAdd'.result = "Ok" => PriorsAllGood(session, lastAdd'.op))
          /\ (~PriorsAllGood(session, lastAdd'.op) =>
                 lastAdd'.result # "Ok" /\ session' = session)
          /\ (lastAdd'.result = "Ok" =>
                 Len(session'.signatures) = Len(session.signatures) + 1)
      ]_vars

C10_VerifiedAddOntoGoodPrior ==
    /\ lastAdd.op = "add_signature_verified_mixed"
    /\ lastAdd.result = "Ok"
    /\ Len(session.signatures) = 2
    /\ session.signatures[1].algorithm = "Secp256k1"

\* expected_index == current_count for the signer id.
InTurn(sess, id) == Position(sess.order.list, id) = Len(sess.signatures)

\* C11: in Ordered mode an add stores its signature only when the signer's
\* index in the order vector equals the number of signatures already stored,
\* and in every reachable state the i-th stored signature is by the i-th
\* signer of the order vector.
C11_OrderedModeFollowsOrderVector ==
    /\ [](session.order.kind = "Ordered" =>
            \A i \in 1..Len(session.signatures) :
                /\ i <= Len(session.order.list)
                /\ session.signatures[i].signer = session.order.list[i])
    /\ [][ (session.order.kind = "Ordered"
             /\ session'.signatures # session.signatures) =>
               /\ InTurn(session, lastAdd'.signer)
               /\ session'.signatures =
                    Append(session.signatures,
                           session'.signatures[Len(session'.signatures)])
               /\ session'.signatures[Len(session'.signatures)].signer
                    = lastAdd'.signer
         ]_vars

\* Both signers of the order vector <<"b", "a">> have signed, "a" last.
C11_BothSignedInOrder ==
    /\ session.order = OrderOrdered(<<<<98>>, <<97>>>>)
    /\ Len(session.signatures) = 2
    /\ lastAdd.result = "Ok"
    /\ lastAdd.signer = <<97>>

\* C26: an add that is refused, by add_signature or by a verified add,
\* leaves the session's signature list exactly as it was before the call.
C26_RejectedAddLeavesSignatures ==
    [][ (lastAdd'.op # "none" /\ lastAdd'.result # "Ok") =>
            session'.signatures = session.signatures ]_vars

\* A verified add by a required signer who has not signed, in a mode
\* without an order vector, was refused for an invalid signature while one
\* signature is stored.
C26_VerifiedAddRefused ==
    /\ session.order.kind # "Ordered"
    /\ lastAdd.op = "add_signature_verified"
    /\ lastAdd.result = "Err(SignatureFailure)"
    /\ lastAdd.signer \in RequiredIds(session) \ SignedIds(session)
    /\ Len(session.signatures) = 1

\* C12: no two stored signatures have the same signer id, and an add for a
\* signer who has already signed fails and leaves the session as it was.
C12_OneSignaturePerSigner ==
    /\ [](\A i, j \in 1..Len(session.signatures) :
            i # j => session.signatures[i].signer # session.signatures[j].signer)
    /\ [][ (lastAdd'.op # "none" /\ lastAdd'.signer \in SignedIds(session)) =>
               (lastAdd'.result # "Ok" /\ session' = session) ]_vars

\* A second add by a signer who is required and has signed is rejected, in
\* a mode without an order vector.
C12_RepeatRejected ==
    /\ session.order.kind # "Ordered"
    /\ lastAdd.op = "add_signature"
    /\ lastAdd.result = "Err(SignatureFailure)"
    /\ lastAdd.signer \in SignedIds(session)
    /\ lastAdd.signer \in RequiredIds(session)

\* C13: every stored signature is by a signer listed in required_signers,
\* and an add by a signer who is not listed fails and leaves the session as
\* it was, in every signing mode.
C13_OnlyRequiredSignersStored ==
    /\ [](SignedIds(session) \subseteq RequiredIds(session))
    /\ [][ (lastAdd'.op # "none" /\ lastAdd'.signer \notin RequiredIds(session)) =>
               (lastAdd'.result # "Ok" /\ session' = session) ]_vars

\* An add by a signer who is not listed is rejected by a session that has
\* stored a listed signer's signature.
C13_UnlistedSignerRejected ==
    /\ Len(session.signatures) = 1
    /\ lastAdd.op = "add_signature"
    /\ lastAdd.result = "Err(SignatureFailure)"
    /\ lastAdd.signer \notin RequiredIds(session)

\* The timestamps of the session followed by one more.
TimesWith(sess, t) ==
    [i \in 1..(Len(sess.signatures) + 1) |->
        IF i <= Len(sess.signatures) THEN [time |-> sess.signatures[i].time]
        ELSE [time |-> t]]

\* C20 (as stated): in every reachable state, would_maintain_order(t) is
\* true exactly when the stored timestamps followed by t are non-decreasing.
C20_WouldMaintainIffWholeSequenceOrdered ==
    \A t \in Times :
        would_maintain_order(session, t) <=> Chronological(TimesWith(session, t))

\* C20 (amended): in every reachable state whose stored timestamps are
\* non-decreasing, would_maintain_order(t) is true exactly when the stored
\* timestamps followed by t are non-decreasing.
C20_WouldMaintainIffOrderedWhenOrdered ==
    validate_signature_order(session) =>
        \A t \in Times :
            would_maintain_order(session, t)
                <=> Chronological(TimesWith(session, t))

\* Two signatures stored in order, the second later than the first: one
\* timestamp would keep the order and another would not.
C20_OrderedSessionBothAnswers ==
    /\ Len(session.signatures) = 2
    /\ validate_signature_order(session)
    /\ \E t \in Times : would_maintain_order(session, t)
    /\ \E t \in Times : ~would_maintain_order(session, t)

(***************************************************************************)
(* Revocations over time, then one batch verification of a block.          *)
(***************************************************************************)
\* Signatures a block may hold: each signer's Ed25519 signature over the
\* verified root at any time, and for signer "a" at time 0 an Ed25519
\* signature over another root, a secp256k1 signature and an RSA-PSS object.
BatchSignatures ==
    {sign_ed25519(OwnKey(id), SessionRoot, id, ScopeFull, t) :
        id \in SignerIds, t \in Times}
    \cup {sign_ed25519("k1", OtherRoot, <<97>>, ScopeFull, 0),
          sign_secp256k1("k1", SessionRoot, <<97>>, ScopeFull, 0),
          RsaPssSignature(<<97>>, 0)}

\* The keys a verifier holds: both keys of both signers, or only the
\* Ed25519 key of signer "a".
BatchKeyrings ==
    {FullKeyring, [ed25519 |-> KeyList(<<<<97>>>>), secp256k1 |-> <<>>]}

NoBatch == [block |-> <<>>, results |-> <<>>]

RECURSIVE TotalLen(_)
TotalLen(lists) == IF lists = <<>> THEN 0 ELSE Len(Head(lists)) + TotalLen(Tail(lists))

InitBatch ==
    /\ IdleSig
    /\ IdleArchive
    /\ IdleAuthority /\ IdleService
    /\ session = <<>> /\ lastAdd = <<>>
    /\ keyring \in BatchKeyrings
    /\ now = 0 /\ revList = <<>> /\ manager = <<>>
    /\ batch = NoBatch

Tick ==
    /\ batch = NoBatch
    /\ now < MaxTime
    /\ now' = now + 1
    /\ UNCHANGED <<serviceVars, authorityVars, sigVars, sessionVars, archiveVars, revList, manager, batch>>

\* RevocationList::revoke: the entry is dated Utc::now().
Revoke ==
    /\ batch = NoBatch
    /\ Len(revList) + TotalLen(manager) < MaxEntries
    /\ \E id \in SignerIds : revList' = revoke(revList, id, now)
    /\ UNCHANGED <<serviceVars, authorityVars, sigVars, sessionVars, archiveVars, now, manager, batch>>

\* RevocationManager::add_list takes the list; its owner starts a new one.
AddList ==
    /\ batch = NoBatch
    /\ revList # <<>>
    /\ manager' = Append(manager, revList)
    /\ revList' = <<>>
    /\ UNCHANGED <<serviceVars, authorityVars, sigVars, sessionVars, archiveVars, now, batch>>

VerifyBlock ==
    /\ batch = NoBatch
    /\ \E block \in SeqsUpTo(BatchSignatures, MaxBlock) :
          batch' = [block |-> block,
                    results |-> verify_signature_block_mixed(
                                    block, SessionRoot, keyring.ed25519,
                                    keyring.secp256k1, manager)]
    /\ UNCHANGED <<serviceVars, authorityVars, sigVars, sessionVars, archiveVars, now, revList, manager>>

NextBatch ==
    \/ Tick
    \/ Revoke
    \/ AddList
    \/ VerifyBlock

SpecBatch == InitBatch /\ [][NextBatch]_vars

ManagerEntries == UNION {{manager[l][j] : j \in 1..Len(manager[l])} : l \in 1..Len(manager)}

RevocationTimes(id) == {e.revoked_at : e \in {x \in ManagerEntries : x.signer_id = id}}

OtherwiseValid(sig) ==
    PriorIsGood(sig, SessionRoot, keyring.ed25519, keyring.secp256k1, <<>>)

\* C6 (as stated): for every entry the manager holds, with signer s and
\* revoked_at = t, each otherwise valid signature of s with time < t is
\* reported Valid and each signature of s with time >= t is reported Revoked.
C6_EveryEntrySplitsAtItsTime ==
    \A e \in ManagerEntries : \A i \in 1..Len(batch.block) :
        batch.block[i].signer = e.signer_id =>
            /\ (batch.block[i].time < e.revoked_at /\ OtherwiseValid(batch.block[i])
                  => batch.results[i].kind = "Valid")
            /\ (batch.block[i].time >= e.revoked_at
                  => batch.results[i].kind = "Revoked")

Min(S) == CHOOSE x \in S : \A y \in S : x <= y

\* C6 (amended): for a signer with entries in the manager, t being the
\* earliest revoked_at among them, each otherwise valid signature of the
\* signer with time < t is reported Valid and each signature of the signer
\* with time >= t is reported Revoked.
C6_EarliestEntrySplits ==
    \A i \in 1..Len(batch.block) :
        LET ts == RevocationTimes(batch.block[i].signer)
        IN ts # {} =>
            /\ (batch.block[i].time < Min(ts) /\ OtherwiseValid(batch.block[i])
                  => batch.results[i] = Result("Valid", batch.block[i].time))
            /\ (batch.block[i].time >= Min(ts)
                  => batch.results[i].kind = "Revoked")

C6_ValidBeforeRevokedAfter ==
    /\ Len(batch.block) = 2
    /\ batch.block[1].signer = batch.block[2].signer
    /\ RevocationTimes(batch.block[1].signer) # {}
    /\ batch.block[1].time < Min(RevocationTimes(batch.block[1].signer))
    /\ batch.results[1].kind = "Valid"
    /\ batch.results[2].kind = "Revoked"

\* A revocation entry of the signature's signer dated at or before it.
RevocationHit(sig) ==
    \E e \in ManagerEntries : e.signer_id = sig.signer /\ e.revoked_at <= sig.time

KeysFor(algorithm) ==
    IF algorithm = "Ed25519" THEN keyring.ed25519
    ELSE IF algorithm = "Secp256k1" THEN keyring.secp256k1
    ELSE <<>>

HasKeyFor(id, algorithm) ==
    \E i \in 1..Len(KeysFor(algorithm)) : KeysFor(algorithm)[i][1] = id

HasSomeKey(id) == HasKeyFor(id, "Ed25519") \/ HasKeyFor(id, "Secp256k1")

\* C19 (as stated): the batch returns one result per signature; a
\* revocation hit gives Revoked; otherwise a signer with no key gives
\* Invalid, a signature whose algorithm the signer's available key does not
\* match gives Unsupported, and a failed verification gives Invalid with a
\* reason.
C19_MismatchReportedUnsupported ==
    /\ Len(batch.results) = Len(batch.block)
    /\ \A i \in 1..Len(batch.block) :
        LET sig == batch.block[i]
            res == batch.results[i]
        IN /\ RevocationHit(sig) => res.kind = "Revoked"
           /\ (~RevocationHit(sig) /\ ~HasSomeKey(sig.signer))
                 => res.kind = "Invalid"
           /\ (~RevocationHit(sig) /\ HasSomeKey(sig.signer)
                 /\ ~HasKeyFor(sig.signer, sig.algorithm))
                 => res.kind = "Unsupported"
           /\ (~RevocationHit(sig) /\ HasKeyFor(sig.signer, sig.algorithm)
                 /\ ~OtherwiseValid(sig))
                 => (res.kind = "Invalid" /\ res.reason # "")

\* C19 (amended): the batch returns one result per signature; a revocation
\* hit gives Revoked with the entry's revoked_at; otherwise an RSA-PSS
\* signature gives Unsupported, an Ed25519 or secp256k1 signature whose
\* signer has no key of that algorithm gives Invalid with a reason (also
\* when the signer has a key of the other algorithm), a failed verification
\* gives Invalid with a reason, and a good signature gives Valid.
C19_MissingKeyReportedInvalid ==
    /\ Len(batch.results) = Len(batch.block)
    /\ \A i \in 1..Len(batch.block) :
        LET sig == batch.block[i]
            res == batch.results[i]
        IN /\ RevocationHit(sig) =>
                 (res.kind = "Revoked" /\ res.time \in RevocationTimes(sig.signer)
                    /\ res.time <= sig.time)
           /\ (~RevocationHit(sig) /\ sig.algorithm = "RsaPss")
                 => res.kind = "Unsupported"
           /\ (~RevocationHit(sig) /\ sig.algorithm # "RsaPss"
                 /\ ~HasKeyFor(sig.signer, sig.algorithm))
                 => (res.kind = "Invalid" /\ res.reason # "")
           /\ (~RevocationHit(sig) /\ HasKeyFor(sig.signer, sig.algorithm)
                 /\ ~OtherwiseValid(sig))
                 => (res.kind = "Invalid" /\ res.reason # "")
           /\ (~RevocationHit(sig) /\ OtherwiseValid(sig))
                 => res = Result("Valid", sig.time)

\* A block whose first signature is secp256k1 by a signer who has only an
\* Ed25519 key, reported Invalid, and whose second is reported after it.
C19_MismatchThenNext ==
    /\ Len(batch.block) = 2
    /\ batch.block[1].algorithm = "Secp256k1"
    /\ HasKeyFor(batch.block[1].signer, "Ed25519")
    /\ ~HasKeyFor(batch.block[1].signer, "Secp256k1")
    /\ batch.results[1].kind = "Invalid"
    /\ batch.results[2].kind \in {"Unsupported", "Valid"}

(***************************************************************************)
(* Archive build, read and verify (archive.rs, document.rs).               *)
(***************************************************************************)
Manifest(title, created, root_hash) ==
    [title |-> title, created |-> created, root_hash |-> root_hash]

\* Document::new: the root hash starts empty; Sha256 unless the caller sets
\* Blake3.  layout and data are Options, held as sequences of length 0 or 1.
Document(title, created, algorithm, layout, data) ==
    [manifest |-> Manifest(title, created, <<>>), algorithm |-> algorithm,
     section |-> <<120>>, styles |-> <<115>>, layout |-> layout, data |-> data]

validate(document) ==
    IF document.manifest.title = <<>> \/ document.section = <<>>
    THEN "Err(InvalidDocument)" ELSE "Ok"

\* The builders the model starts from: a titled or untitled document, bare
\* or with layout, data and one asset.
Builders ==
    {[document |-> Document(title, t, alg, opt[1], opt[2]), assets |-> opt[3]] :
        title \in {<<100>>, <<>>}, t \in Times,
        alg \in {ALGORITHM_SHA256, ALGORITHM_BLAKE3},
        opt \in {<< <<>>, <<>>, <<>> >>,
                 << <<File(<<160>>)>>, <<File(<<123, 125>>)>>, <<File(<<7>>)>> >>}}

NoBin == [magic |-> <<>>, version |-> 0, alg |-> 0, count |-> 0,
          root |-> NoDigest, leaves |-> <<>>]
\* A run of further entries of an archive, none of them a component: how
\* many, and the uncompressed and compressed size of each.
ExtraEntries(count, size, compressed) ==
    [count |-> count, size |-> size, compressed |-> compressed]
NoExtra == ExtraEntries(0, 0, 0)
NoArchive == [exists |-> FALSE, manifest |-> File(<<>>), content |-> File(<<>>),
              styles |-> File(<<>>), layout |-> <<>>, data |-> <<>>,
              assets |-> <<>>, hashes |-> NoBin, extra |-> NoExtra]
NoBuilt == [result |-> "none", root |-> NoDigest, count |-> 0]
NoReport == [result |-> "none", config |-> "none", integrity_valid |-> FALSE,
             root_hash |-> <<>>]
NoOpened == [result |-> "none", version |-> 0]

\* The component map: manifest, content, styles, layout?, data?, assets.
Components(manifest_file, arch) ==
    <<manifest_file, arch.content, arch.styles>>
    \o arch.layout \o arch.data \o arch.assets

\* The entries build_with_timestamp writes for a document, with the tree
\* it computes over the manifest bytes as the document holds them.
Entries(bld) ==
    [exists |-> TRUE, manifest |-> manifest_to_vec(bld.document.manifest),
     content |-> content_to_vec(bld.document.section),
     styles |-> File(bld.document.styles),
     layout |-> bld.document.layout, data |-> bld.document.data,
     assets |-> bld.assets, hashes |-> NoBin, extra |-> NoExtra]

build_with_timestamp(bld) ==
    LET parts == Entries(bld)
        tree == MerkleTree(bld.document.algorithm, TRUE)
        components == Components(parts.manifest, parts)
        leaf_hashes == LeafHashes(tree, components)
        root_hash == build_tree(tree, leaf_hashes)
        updated == [bld.document.manifest EXCEPT !.root_hash = <<root_hash>>]
    IN IF validate(bld.document) # "Ok"
       THEN [result |-> validate(bld.document), builder |-> bld,
             archive |-> NoArchive, root |-> NoDigest]
       ELSE [result |-> "Ok",
             builder |-> [bld EXCEPT !.document.manifest = updated],
             archive |-> [parts EXCEPT !.manifest = manifest_to_vec(updated),
                                       !.hashes = to_binary(tree, root_hash, leaf_hashes)],
             root |-> root_hash]

\* The uncompressed size of an entry; an embedded root is 64 hex characters
\* behind a two-byte text header.
FileSize(file) ==
    Len(file.bytes) + (IF file.embedded = <<>> THEN 0 ELSE 2 + 2 * HashSize)

AllFiles(arch) ==
    <<arch.manifest, arch.content, arch.styles>>
    \o arch.layout \o arch.data \o arch.assets

ReportErr(config, e) ==
    [result |-> e, config |-> config.name, integrity_valid |-> FALSE,
     root_hash |-> <<>>]

\* zip.len(): the number of entries of the archive.
EntryCount(arch) == Len(AllFiles(arch)) + 1 + arch.extra.count

\* The sum of file.size() over the entries.
RECURSIVE SumSizes(_)
SumSizes(files) ==
    IF files = <<>> THEN 0 ELSE FileSize(Head(files)) + SumSizes(Tail(files))

TotalUncompressed(arch) ==
    SumSizes(AllFiles(arch)) + BinaryLen(arch.hashes)
    + arch.extra.count * arch.extra.size

\* metadata.len(): the end record (22 bytes), and per entry a local header
\* (30), a central header (46), the name twice (taken as 12 bytes) and the
\* compressed data; the components are too short to deflate.
ArchiveLen(arch) ==
    22 + EntryCount(arch) * (30 + 46 + 2 * 12)
    + SumSizes(AllFiles(arch)) + BinaryLen(arch.hashes)
    + arch.extra.count * arch.extra.compressed

verify_with_config(arch, config) ==
    LET manifest == manifest_from_slice(arch.manifest)
        manifest_bytes_for_hash ==
            manifest_to_vec(Manifest(manifest.title, manifest.created, <<>>))
        components == Components(manifest_bytes_for_hash, arch)
        merkle_tree == from_binary(arch.hashes)
    IN IF check_size(config, ArchiveLen(arch)) # "Ok"
       THEN ReportErr(config, check_size(config, ArchiveLen(arch)))
       ELSE IF \/ \E i \in 1..Len(AllFiles(arch)) :
                    check_file_size(config, FileSize(AllFiles(arch)[i])) # "Ok"
               \/ check_file_size(config, BinaryLen(arch.hashes)) # "Ok"
               \/ /\ arch.extra.count > 0
                  /\ check_file_size(config, arch.extra.size) # "Ok"
       THEN ReportErr(config, "Err(FileSizeExceeded)")
       ELSE IF check_decompression_ratio(config, ArchiveLen(arch),
                                        TotalUncompressed(arch)) # "Ok"
       THEN ReportErr(config, check_decompression_ratio(config, ArchiveLen(arch),
                                                        TotalUncompressed(arch)))
       ELSE IF ~manifest.ok THEN ReportErr(config, "Err(Cbor)")
       ELSE IF merkle_tree.result # "Ok" THEN ReportErr(config, merkle_tree.result)
       ELSE IF ~content_parses(arch.content) THEN ReportErr(config, "Err(Cbor)")
       ELSE [result |-> "Ok", config |-> config.name,
             integrity_valid |-> merkle_verify(merkle_tree, components),
             root_hash |-> <<merkle_tree.root_hash>>]

\* ArchiveReader::read: the Merkle tree it returns, by its version.
read(arch) ==
    LET merkle_tree == from_binary(arch.hashes)
    IN IF ~manifest_from_slice(arch.manifest).ok \/ ~content_parses(arch.content)
       THEN [result |-> "Err(Cbor)", version |-> 0]
       ELSE IF merkle_tree.result # "Ok"
       THEN [result |-> merkle_tree.result, version |-> 0]
       ELSE [result |-> "Ok",
             version |-> IF merkle_tree.tree.use_domain_separators THEN 2 ELSE 1]

\* One bit of a byte inverted (bit 5).
Flip(b) == IF (b \div 32) % 2 = 1 THEN b - 32 ELSE b + 32

\* The values a changed byte may take: the flipped byte; a space for a 'T'.
Replacements(b) == {Flip(b)} \cup (IF b = 84 THEN {32} ELSE {})

\* A 32-byte word with a byte changed.
FlipDigest(d) == [d EXCEPT !.sep = @ \o <<255>>]

InitArchive ==
    /\ IdleSig /\ IdleSession /\ IdleBatch /\ IdleAuthority /\ IdleService
    /\ builder \in Builders
    /\ built = NoBuilt
    /\ archive = NoArchive
    /\ tampered = "none"
    /\ report = NoReport
    /\ opened = NoOpened

\* ArchiveBuilder::build, unsigned.  A builder can build again.
Build ==
    /\ built.count < MaxBuilds
    /\ LET r == build_with_timestamp(builder)
       IN /\ builder' = r.builder
          /\ built' = [result |-> r.result, root |-> r.root, count |-> built.count + 1]
          /\ archive' = IF r.result = "Ok" THEN r.archive ELSE archive
          /\ tampered' = IF r.result = "Ok" THEN "none" ELSE tampered
    /\ report' = NoReport
    /\ opened' = NoOpened
    /\ UNCHANGED <<serviceVars, authorityVars, sigVars, sessionVars, batchVars>>

\* An archive in the version-1 layout arrives: the same entries, the tree
\* computed without domain separators, the version byte 1.
ReceiveLegacyArchive ==
    /\ built = NoBuilt
    /\ validate(builder.document) = "Ok"
    /\ LET parts == Entries(builder)
           tree == MerkleTree(builder.document.algorithm, FALSE)
           leaf_hashes == LeafHashes(tree, Components(parts.manifest, parts))
           root_hash == build_tree(tree, leaf_hashes)
           updated == [builder.document.manifest EXCEPT !.root_hash = <<root_hash>>]
       IN archive' = [parts EXCEPT
                        !.manifest = manifest_to_vec(updated),
                        !.hashes = [to_binary(tree, root_hash, leaf_hashes)
                                      EXCEPT !.version = MERKLE_VERSION_LEGACY]]
    /\ built' = [NoBuilt EXCEPT !.result = "received", !.count = MaxBuilds]
    /\ tampered' = "none"
    /\ report' = NoReport
    /\ opened' = NoOpened
    /\ UNCHANGED <<serviceVars, authorityVars, sigVars, sessionVars, batchVars, builder>>

ChangeByte(file, pos, b) == [file EXCEPT !.bytes[pos] = b]

\* One byte of one hashed entry is changed, the Merkle tree left as written.
TamperEntry ==
    /\ archive.exists
    /\ tampered = "none"
    /\ \/ \E pos \in 1..Len(archive.manifest.bytes) :
            \E b \in Replacements(archive.manifest.bytes[pos]) :
              /\ archive' = [archive EXCEPT !.manifest = ChangeByte(@, pos, b)]
              /\ tampered' = "manifest.cbor"
       \/ \E pos \in 1..Len(archive.content.bytes) :
              /\ archive' = [archive EXCEPT !.content =
                                ChangeByte(@, pos, Flip(archive.content.bytes[pos]))]
              /\ tampered' = "content.cbor"
       \/ \E pos \in 1..Len(archive.styles.bytes) :
              /\ archive' = [archive EXCEPT !.styles =
                                ChangeByte(@, pos, Flip(archive.styles.bytes[pos]))]
              /\ tampered' = "styles.css"
       \/ /\ archive.layout # <<>>
          /\ \E pos \in 1..Len(archive.layout[1].bytes) :
              /\ archive' = [archive EXCEPT !.layout[1] =
                                ChangeByte(@, pos, Flip(archive.layout[1].bytes[pos]))]
              /\ tampered' = "layout.cbor"
       \/ /\ archive.data # <<>>
          /\ \E pos \in 1..Len(archive.data[1].bytes) :
              /\ archive' = [archive EXCEPT !.data[1] =
                                ChangeByte(@, pos, Flip(archive.data[1].bytes[pos]))]
              /\ tampered' = "data.json"
       \/ \E i \in 1..Len(archive.assets) :
            \E pos \in 1..Len(archive.assets[i].bytes) :
              /\ archive' = [archive EXCEPT !.assets[i] =
                                ChangeByte(@, pos, Flip(archive.assets[i].bytes[pos]))]
              /\ tampered' = "assets/"
    /\ report' = NoReport
    /\ opened' = NoOpened
    /\ UNCHANGED <<serviceVars, authorityVars, sigVars, sessionVars, batchVars, builder, built>>

\* One byte of hashes.bin is changed: in the magic, the version, the
\* algorithm, the leaf count, the stored root or a stored leaf hash.
TamperHashes ==
    /\ archive.exists
    /\ tampered = "none"
    /\ \/ \E i \in 1..4 :
            archive' = [archive EXCEPT !.hashes.magic[i] = Flip(@)]
       \/ \E v \in {1, 2, 3} \ {archive.hashes.version} :
            archive' = [archive EXCEPT !.hashes.version = v]
       \/ \E a \in 0..5 \ {archive.hashes.alg} :
            archive' = [archive EXCEPT !.hashes.alg = a]
       \/ \E c \in {archive.hashes.count - 1, archive.hashes.count + 1,
                     archive.hashes.count + 16777216} :
            archive' = [archive EXCEPT !.hashes.count = c]
       \/ archive' = [archive EXCEPT !.hashes.root = FlipDigest(@)]
       \/ \E i \in 1..Len(archive.hashes.leaves) :
            archive' = [archive EXCEPT !.hashes.leaves[i] = FlipDigest(@)]
    /\ tampered' = "hashes.bin"
    /\ report' = NoReport
    /\ opened' = NoOpened
    /\ UNCHANGED <<serviceVars, authorityVars, sigVars, sessionVars, batchVars, builder, built>>

\* Further entries are appended to the archive as built: 1001 or 10001
\* empty entries; one entry of 1 MiB deflated to 1030 bytes, or packed by a
\* denser method to 100 bytes; one entry a byte above 1 MiB; six stored
\* entries of 1 MiB.
AppendedEntries ==
    {ExtraEntries(1001, 0, 0), ExtraEntries(10001, 0, 0),
     ExtraEntries(1, 1024 * 1024, 1030), ExtraEntries(1, 1024 * 1024, 100),
     ExtraEntries(1, 1024 * 1024 + 1, 1024 * 1024 + 1),
     ExtraEntries(6, 1024 * 1024, 1024 * 1024)}

AppendEntries ==
    /\ archive.exists
    /\ tampered = "none"
    /\ \E extra \in AppendedEntries : archive' = [archive EXCEPT !.extra = extra]
    /\ tampered' = "appended"
    /\ report' = NoReport
    /\ opened' = NoOpened
    /\ UNCHANGED <<serviceVars, authorityVars, sigVars, sessionVars, batchVars, builder, built>>

Verify ==
    /\ archive.exists
    /\ \E config \in SecurityConfigs :
          report' = verify_with_config(archive, config)
    /\ UNCHANGED <<serviceVars, authorityVars, sigVars, sessionVars, batchVars, builder, built, archive,
                   tampered, opened>>

Read ==
    /\ archive.exists
    /\ opened' = read(archive)
    /\ UNCHANGED <<serviceVars, authorityVars, sigVars, sessionVars, batchVars, builder, built, archive,
                   tampered, report>>

NextArchive ==
    \/ Build
    \/ ReceiveLegacyArchive
    \/ TamperEntry
    \/ TamperHashes
    \/ AppendEntries
    \/ Verify
    \/ Read

SpecArchive == InitArchive /\ [][NextArchive]_vars

HashedEntries == {"manifest.cbor", "content.cbor", "styles.css", "layout.cbor",
                  "data.json", "assets/"}

\* C1: for a document that passes validate, an archive as build wrote it,
\* verified, gives a report with integrity_valid = true whose root_hash is
\* the root computed at build time.
C1_BuildThenVerifyRoundTrip ==
    (built.result = "Ok" /\ tampered = "none" /\ report.result = "Ok") =>
        (report.integrity_valid /\ report.root_hash = <<built.root>>)

\* C2: after one byte of a hashed entry of a built archive is changed (in
\* manifest.cbor outside the root_hash string, content.cbor, styles.css,
\* layout.cbor, data.json or an assets/ entry) without rebuilding the
\* Merkle tree, a report that verify returns has integrity_valid = false.
C2_EntryTamperDetected ==
    (built.result = "Ok" /\ tampered \in HashedEntries /\ report.result = "Ok") =>
        ~report.integrity_valid

\* C3: after one byte of hashes.bin of a built archive is changed (header,
\* stored root or a stored leaf hash), a report that verify returns has
\* integrity_valid = false.
C3_HashesTamperDetected ==
    (built.result = "Ok" /\ tampered = "hashes.bin" /\ report.result = "Ok") =>
        ~report.integrity_valid

\* C8: under the default policy, neither verify nor read accepts an archive
\* whose hashes.bin carries the version the policy rejects (version 1).
C8_LegacyMerkleRejected ==
    ( /\ archive.exists
      /\ check_merkle_version(SecurityConfigDefault, archive.hashes.version) # "Ok" )
    => /\ (report.config = "default" => report.result # "Ok")
       /\ opened.result # "Ok"

\* C17: a verification of an archive that holds more entries than the
\* max_file_count of the configuration used (1000 by default) does not
\* return a report: it fails.
C17_TooManyEntriesRejected ==
    \A config \in SecurityConfigs :
        ( /\ report.result # "none"
          /\ report.config = config.name
          /\ EntryCount(archive) > config.max_file_count )
        => report.result # "Ok"

\* size > ratio * compressed, computed without the product, which leaves
\* the range of the model's integers for the largest inputs.
MoreThanTimes(size, ratio, compressed) ==
    IF compressed = 0 THEN size > 0
    ELSE \/ size \div compressed > ratio
         \/ size \div compressed = ratio /\ size % compressed > 0

\* C18: a verification of an archive holding an entry whose uncompressed
\* size is more than max_decompression_ratio times its compressed size
\* fails.
C18_EntryRatioAboveCeilingRejected ==
    \A config \in SecurityConfigs :
        ( /\ report.result # "none"
          /\ report.config = config.name
          /\ archive.extra.count > 0
          /\ MoreThanTimes(archive.extra.size, config.max_decompression_ratio,
                           archive.extra.compressed) )
        => report.result # "Ok"

\* The archive passes the size ceilings of the configuration and its
\* manifest, hashes.bin and content parse.
Readable(arch, config) ==
    /\ check_size(config, ArchiveLen(arch)) = "Ok"
    /\ \A i \in 1..Len(AllFiles(arch)) :
          check_file_size(config, FileSize(AllFiles(arch)[i])) = "Ok"
    /\ check_file_size(config, BinaryLen(arch.hashes)) = "Ok"
    /\ arch.extra.count > 0 => check_file_size(config, arch.extra.size) = "Ok"
    /\ check_decompression_ratio(config, ArchiveLen(arch),
                                 TotalUncompressed(arch)) = "Ok"
    /\ manifest_from_slice(arch.manifest).ok
    /\ from_binary(arch.hashes).result = "Ok"
    /\ content_parses(arch.content)

\* The root recomputed from the entries with the stored tree's parameters.
RecomputedRoot(arch) ==
    LET manifest == manifest_from_slice(arch.manifest)
    IN compute_root(from_binary(arch.hashes).tree,
                    Components(manifest_to_vec(Manifest(manifest.title,
                                                        manifest.created, <<>>)),
                               arch))

\* C23: when the archive can be read and parsed but the recomputed Merkle
\* root differs from the stored root, verify returns a report, and the
\* report has integrity_valid = false.
C23_RootMismatchIsReported ==
    \A config \in SecurityConfigs :
        ( /\ report.result # "none"
          /\ report.config = config.name
          /\ Readable(archive, config)
          /\ RecomputedRoot(archive) # from_binary(archive.hashes).root_hash )
        => (report.result = "Ok" /\ ~report.integrity_valid)

\* A built archive whose content.cbor was changed and still parses was
\* verified under the default configuration.
C23_TamperedContentReported ==
    /\ tampered = "content.cbor"
    /\ content_parses(archive.content)
    /\ report.config = "default"
    /\ report.result = "Ok"
    /\ ~report.integrity_valid

\* C24: build feeds the Merkle tree the bytes of the manifest with an empty
\* root_hash, whatever root_hash the document holds, so that every build of
\* a builder, the second included, gives an archive that verifies with
\* integrity_valid = true.
C24_BuildHashesManifestWithoutRoot ==
    (built.result = "Ok" /\ tampered = "none") =>
        /\ archive.hashes.root = RecomputedRoot(archive)
        /\ report.result = "Ok" => report.integrity_valid

(***************************************************************************)
(* Signed revocation lists and the trusted directory (revocation.rs).      *)
(* A DateTime<Utc> here is a record of whole seconds and the nanoseconds   *)
(* within the second.                                                      *)
(***************************************************************************)
PublicKeyLength == 32
SIGNED_REVOCATION_VERSION == 1
SecondsPerHour == 3600

DateTime(secs, nanos) == [secs |-> secs, nanos |-> nanos]

\* DateTime::timestamp(): the whole seconds.
timestamp(dt) == dt.secs

Instants == {DateTime(0, 0), DateTime(0, 1), DateTime(1, 0)}

\* RevocationReason as u8: Unspecified = 0, KeyCompromise = 1.
Reasons == {0, 1}

\* A RevocationEntry with its reason (issued_at and authority are None).
RevocationEntryFor(signer_id, revoked_at, reason) ==
    [signer_id |-> signer_id, revoked_at |-> revoked_at, reason |-> reason]

StrRevocationV1 == <<84,68,70,45,82,69,86,79,67,65,84,73,79,78,45,86,49,58>>
Colon == <<58>>
Semicolon == <<59>>

\* i64::to_be_bytes for 0 <= n < 2^31: four zero bytes, then the value.
to_be_bytes(n) ==
    <<0, 0, 0, 0, (n \div 16777216) % 256, (n \div 65536) % 256,
      (n \div 256) % 256, n % 256>>

\* VerifyingKey::as_bytes and VerifyingKey::from_bytes (NoKey: not a key).
as_bytes(vk) ==
    [i \in 1..PublicKeyLength |->
        IF i = 1 THEN (IF vk = VerifyingKeyOf("k1") THEN 171 ELSE 205) ELSE 0]

from_bytes(bytes) ==
    IF \E vk \in VerifyingKeys : as_bytes(vk) = bytes
    THEN CHOOSE vk \in VerifyingKeys : as_bytes(vk) = bytes
    ELSE NoKey

\* hex::decode: digits in either case; an odd length or another character
\* is an error.
HexValue(c) ==
    IF c \in 48..57 THEN c - 48
    ELSE IF c \in 97..102 THEN c - 87
    ELSE IF c \in 65..70 THEN c - 55
    ELSE -1

RECURSIVE HexDecode(_)
HexDecode(chars) ==
    IF chars = <<>> THEN [ok |-> TRUE, bytes |-> <<>>]
    ELSE IF Len(chars) = 1 \/ HexValue(chars[1]) < 0 \/ HexValue(chars[2]) < 0
         THEN [ok |-> FALSE, bytes |-> <<>>]
    ELSE LET rest == HexDecode(SubSeq(chars, 3, Len(chars)))
         IN [ok |-> rest.ok,
             bytes |-> <<16 * HexValue(chars[1]) + HexValue(chars[2])>> \o rest.bytes]

\* to_ascii_uppercase of a hex string.
UpperHex(chars) ==
    [i \in 1..Len(chars) |-> IF chars[i] \in 97..102 THEN chars[i] - 32 ELSE chars[i]]

AuthorityInfo(id, public_key) == [id |-> id, public_key |-> public_key]

\* AuthorityInfo::new
authority_new(id, verifying_key) ==
    AuthorityInfo(id, HexEncode(as_bytes(verifying_key)))

\* AuthorityInfo::verifying_key; NoKey for Err(InvalidDocument)
authority_verifying_key(authority) ==
    LET decoded == HexDecode(authority.public_key)
    IN IF ~decoded.ok THEN NoKey
       ELSE IF Len(decoded.bytes) # PublicKeyLength THEN NoKey
       ELSE from_bytes(decoded.bytes)

SignedRevocationList(entries, authority, issued_at, next_update, signature) ==
    [version |-> SIGNED_REVOCATION_VERSION, entries |-> entries,
     authority |-> authority, issued_at |-> issued_at,
     next_update |-> next_update, signature |-> signature]

\* sort_by(|a, b| a.signer_id.cmp(&b.signer_id)): a stable sort.
RECURSIVE InsertBySignerId(_, _)
InsertBySignerId(e, list) ==
    IF list = <<>> THEN <<e>>
    ELSE IF LexLess(Head(list).signer_id, e.signer_id)
         THEN <<Head(list)>> \o InsertBySignerId(e, Tail(list))
    ELSE <<e>> \o list

RECURSIVE SortBySignerId(_)
SortBySignerId(list) ==
    IF list = <<>> THEN <<>>
    ELSE InsertBySignerId(Head(list), SortBySignerId(Tail(list)))

\* The bytes one entry feeds to the hasher.
EntryPayload(entry) ==
    Concat(<<entry.signer_id, Colon, to_be_bytes(timestamp(entry.revoked_at)),
             Colon, <<entry.reason>>, Semicolon>>)

RECURSIVE EntriesPayload(_)
EntriesPayload(sorted_entries) ==
    IF sorted_entries = <<>> THEN <<>>
    ELSE EntryPayload(Head(sorted_entries)) \o EntriesPayload(Tail(sorted_entries))

\* SHA-256 over the concatenation of the update() calls.
canonical_payload(list) ==
    Concat(<<StrRevocationV1, <<list.version>>,
             list.authority.id, Colon, list.authority.public_key, Colon,
             to_be_bytes(timestamp(list.issued_at)),
             IF list.next_update = <<>> THEN <<>>
             ELSE to_be_bytes(timestamp(list.next_update[1])),
             EntriesPayload(SortBySignerId(list.entries))>>)

NoSignedList ==
    SignedRevocationList(<<>>, AuthorityInfo(<<>>, <<>>), DateTime(0, 0), <<>>,
                         GarbledBytes)

\* validity_hours.map(|h| issued_at + Duration::hours(h)); <<>> is None.
NextUpdate(issued_at, validity_hours) ==
    IF validity_hours = <<>> THEN <<>>
    ELSE <<DateTime(issued_at.secs + SecondsPerHour * validity_hours[1],
                    issued_at.nanos)>>

\* SignedRevocationList::new; issued_at is Utc::now().
signed_list_new(entries, authority, signing_key, validity_hours, issued_at) ==
    LET unsigned == SignedRevocationList(entries, authority, issued_at,
                        NextUpdate(issued_at, validity_hours), GarbledBytes)
    IN IF authority.public_key # HexEncode(as_bytes(VerifyingKeyOf(signing_key)))
       THEN [result |-> "Err(SignatureFailure)", list |-> NoSignedList]
       ELSE [result |-> "Ok",
             list |-> [unsigned EXCEPT
                          !.signature = SignBytes(signing_key,
                                                  canonical_payload(unsigned))]]

\* SignedRevocationList::verify
signed_list_verify(list) ==
    LET verifying_key == authority_verifying_key(list.authority)
    IN IF verifying_key = NoKey THEN "Err(InvalidDocument)"
       ELSE IF ~list.signature.wellformed THEN "Err(SignatureFailure)"
       ELSE IF VerifyBytes(verifying_key, canonical_payload(list), list.signature)
            THEN "Ok(true)"
            ELSE "Err(SignatureFailure)"

\* An add_entry that stores the entry and keeps the old signature.
add_entry_NoResign(list, entry, signing_key, issued_at) ==
    IF list.authority.public_key # HexEncode(as_bytes(VerifyingKeyOf(signing_key)))
    THEN [result |-> "Err(SignatureFailure)", list |-> list]
    ELSE IF \E i \in 1..Len(list.entries) :
                list.entries[i].signer_id = entry.signer_id
    THEN [result |-> "Err(InvalidDocument)", list |-> list]
    ELSE [result |-> "Ok",
          list |-> [list EXCEPT !.entries = Append(@, entry),
                                !.issued_at = issued_at]]

\* SignedRevocationList::add_entry; issued_at is Utc::now().
add_entry(list, entry, signing_key, issued_at) ==
    LET updated == [list EXCEPT !.entries = Append(@, entry),
                                !.issued_at = issued_at]
    IN IF list.authority.public_key # HexEncode(as_bytes(VerifyingKeyOf(signing_key)))
       THEN [result |-> "Err(SignatureFailure)", list |-> list]
       ELSE IF \E i \in 1..Len(list.entries) :
                   list.entries[i].signer_id = entry.signer_id
       THEN [result |-> "Err(InvalidDocument)", list |-> list]
       ELSE [result |-> "Ok",
             list |-> [updated EXCEPT
                          !.signature = SignBytes(signing_key,
                                                  canonical_payload(updated))]]

\* RevocationManager: trusted_authorities and signed_lists.
RevocationManager(trusted_authorities, signed_lists) ==
    [trusted_authorities |-> trusted_authorities, signed_lists |-> signed_lists]

add_trusted_authority(mgr, authority_id, verifying_key) ==
    [mgr EXCEPT !.trusted_authorities = Append(@, <<authority_id, verifying_key>>)]

\* find(|(id, _)| id == authority_id); NoKey for None
is_authority_trusted(mgr, authority_id) ==
    FindKey(mgr.trusted_authorities, authority_id)

\* An add that trusts any list whose signature verifies.
add_signed_list_verified_AnyAuthority(mgr, list) ==
    IF signed_list_verify(list) # "Ok(true)"
    THEN [result |-> signed_list_verify(list), manager |-> mgr]
    ELSE [result |-> "Ok",
          manager |-> [mgr EXCEPT !.signed_lists = Append(@, list)]]

\* RevocationManager::add_signed_list_verified
add_signed_list_verified(mgr, list) ==
    LET trusted_key == is_authority_trusted(mgr, list.authority.id)
        embedded_key == authority_verifying_key(list.authority)
    IN IF signed_list_verify(list) # "Ok(true)"
       THEN [result |-> signed_list_verify(list), manager |-> mgr]
       ELSE IF trusted_key = NoKey
       THEN [result |-> "Err(UntrustedSigner)", manager |-> mgr]
       ELSE IF embedded_key = NoKey
       THEN [result |-> "Err(InvalidDocument)", manager |-> mgr]
       ELSE IF as_bytes(embedded_key) # as_bytes(trusted_key)
       THEN [result |-> "Err(SignatureFailure)", manager |-> mgr]
       ELSE [result |-> "Ok",
             manager |-> [mgr EXCEPT !.signed_lists = Append(@, list)]]

(***************************************************************************)
(* An authority issues and extends a signed list; entries of the list are  *)
(* altered behind its back; a manager registers trusted authorities and    *)
(* is offered the list.                                                    *)
(***************************************************************************)
\* What a caller passes to SignedRevocationList::new as authority: "A"
\* with its key, "A" with another party's key, "B" with that party's key,
\* and "A" with its key written in upper-case hex.
AuthorityInfos ==
    {authority_new(<<65>>, VerifyingKeyOf("k1")),
     authority_new(<<65>>, VerifyingKeyOf("k2")),
     authority_new(<<66>>, VerifyingKeyOf("k2")),
     AuthorityInfo(<<65>>, UpperHex(HexEncode(as_bytes(VerifyingKeyOf("k1")))))}

InitialEntries == {<<>>, <<RevocationEntryFor(<<97>>, DateTime(0, 0), 1)>>}

OfferedEntries == {RevocationEntryFor(id, DateTime(0, 0), 1) : id \in SignerIds}

NoAuthOp == [op |-> "none", result |-> "none"]

InitAuthority ==
    /\ IdleSig /\ IdleSession /\ IdleBatch
    /\ IdleArchive /\ IdleService
    /\ signedList = NoSignedList
    /\ issuedList = NoSignedList
    /\ registry = RevocationManager(<<>>, <<>>)
    /\ authOp = NoAuthOp

NewSignedList ==
    /\ signedList = NoSignedList
    /\ \E entries \in InitialEntries, authority \in AuthorityInfos,
          signing_key \in SigningKeys, validity_hours \in {<<>>, <<1>>} :
          LET r == signed_list_new(entries, authority, signing_key,
                                   validity_hours, DateTime(0, 0))
          IN /\ signedList' = r.list
             /\ issuedList' = r.list
             /\ authOp' = [op |-> "new", result |-> r.result]
    /\ UNCHANGED <<serviceVars, registry, sigVars, sessionVars, batchVars, archiveVars>>

AddEntry ==
    /\ signedList # NoSignedList
    /\ signedList = issuedList
    /\ Len(signedList.entries) < MaxEntries
    /\ \E entry \in OfferedEntries, signing_key \in SigningKeys,
          t \in {u \in Times : u >= signedList.issued_at.secs} :
          LET r == add_entry(signedList, entry, signing_key, DateTime(t, 0))
          IN /\ signedList' = r.list
             /\ issuedList' = IF r.result = "Ok" THEN r.list ELSE issuedList
             /\ authOp' = [op |-> "add_entry", result |-> r.result]
    /\ UNCHANGED <<serviceVars, registry, sigVars, sessionVars, batchVars, archiveVars>>

\* One field of one entry of the list is given another value; the
\* signature stays as it was.
AlterEntry ==
    /\ signedList # NoSignedList
    /\ signedList = issuedList
    /\ \E i \in 1..Len(signedList.entries) :
          \/ \E id \in (SignerIds \cup {<<99>>}) \ {signedList.entries[i].signer_id} :
                signedList' = [signedList EXCEPT !.entries[i].signer_id = id]
          \/ \E t \in Instants \ {signedList.entries[i].revoked_at} :
                signedList' = [signedList EXCEPT !.entries[i].revoked_at = t]
          \/ \E r \in Reasons \ {signedList.entries[i].reason} :
                signedList' = [signedList EXCEPT !.entries[i].reason = r]
    /\ authOp' = [op |-> "alter", result |-> "none"]
    /\ UNCHANGED <<serviceVars, issuedList, registry, sigVars, sessionVars, batchVars, archiveVars>>

VerifyList ==
    /\ signedList # NoSignedList
    /\ authOp' = [op |-> "verify", result |-> signed_list_verify(signedList)]
    /\ UNCHANGED <<serviceVars, signedList, issuedList, registry,
                   sigVars, sessionVars, batchVars, archiveVars>>

AddTrustedAuthority ==
    /\ Len(registry.trusted_authorities) < MaxTrusted
    /\ registry.signed_lists = <<>>
    /\ \E verifying_key \in VerifyingKeys :
          registry' = add_trusted_authority(registry, <<65>>, verifying_key)
    /\ authOp' = [op |-> "add_trusted_authority", result |-> "none"]
    /\ UNCHANGED <<serviceVars, signedList, issuedList, sigVars, sessionVars, batchVars, archiveVars>>

AddSignedListVerified ==
    /\ signedList # NoSignedList
    /\ registry.signed_lists = <<>>
    /\ LET r == add_signed_list_verified(registry, signedList)
       IN /\ registry' = r.manager
          /\ authOp' = [op |-> "add_signed_list_verified", result |-> r.result]
    /\ UNCHANGED <<serviceVars, signedList, issuedList, sigVars, sessionVars, batchVars, archiveVars>>

NextAuthority ==
    \/ NewSignedList
    \/ AddEntry
    \/ AlterEntry
    \/ VerifyList
    \/ AddTrustedAuthority
    \/ AddSignedListVerified

SpecAuthority == InitAuthority /\ [][NextAuthority]_vars

(***************************************************************************)
(* Properties of signed revocation lists and the trusted directory.        *)
(***************************************************************************)

\* C14: a list as SignedRevocationList::new returned it, or as a successful
\* add_entry left it, verifies against its own authority.public_key:
\* verify() returns Ok(true).
C14_IssuedListVerifies ==
    (signedList # NoSignedList /\ signedList = issuedList)
        => signed_list_verify(signedList) = "Ok(true)"

\* A list of two entries right after a successful add_entry.
C14_AfterSuccessfulAddEntry ==
    /\ authOp = [op |-> "add_entry", result |-> "Ok"]
    /\ signedList = issuedList
    /\ Len(signedList.entries) = 2
    /\ signedList.issued_at = DateTime(1, 0)

\* C15: once an entry's signer_id, revoked_at or reason differs from what
\* was signed, verify() fails with a signature failure.
C15_AlteredEntryFailsVerify ==
    (signedList # NoSignedList /\ signedList # issuedList)
        => signed_list_verify(signedList) = "Err(SignatureFailure)"

\* Some pair of the directory registers this key for this authority id.
Registered(mgr, authority_id, key) ==
    \E i \in 1..Len(mgr.trusted_authorities) :
        /\ mgr.trusted_authorities[i][1] = authority_id
        /\ mgr.trusted_authorities[i][2] # NoKey
        /\ key # NoKey
        /\ as_bytes(mgr.trusted_authorities[i][2]) = as_bytes(key)

\* The three conditions on a list offered to the manager.
Acceptable(mgr, list) ==
    /\ signed_list_verify(list) = "Ok(true)"
    /\ \E i \in 1..Len(mgr.trusted_authorities) :
          mgr.trusted_authorities[i][1] = list.authority.id
    /\ Registered(mgr, list.authority.id, authority_verifying_key(list.authority))

\* C16: add_signed_list_verified stores the list only if its signature is
\* valid, its authority id is in the trusted directory and its embedded key
\* equals the key registered for that id; otherwise it returns an error and
\* the manager is unchanged.
C16_StoredOnlyFromTrustedAuthority ==
    [][authOp'.op = "add_signed_list_verified" =>
          /\ (authOp'.result = "Ok") =>
                /\ Acceptable(registry, signedList)
                /\ registry'.signed_lists = Append(registry.signed_lists, signedList)
                /\ registry'.trusted_authorities = registry.trusted_authorities
          /\ (authOp'.result # "Ok") => registry' = registry
          /\ ~Acceptable(registry, signedList) => authOp'.result # "Ok"]_vars

\* A correctly signed list of an authority id the directory holds, but with
\* another key than the registered one, was offered and refused.
C16_WrongKeyListRefused ==
    /\ authOp = [op |-> "add_signed_list_verified", result |-> "Err(SignatureFailure)"]
    /\ signed_list_verify(signedList) = "Ok(true)"
    /\ signedList.authority.id = <<65>>
    /\ registry.trusted_authorities = <<<<(<<65>>), VerifyingKeyOf("k1")>>>>
    /\ registry.signed_lists = <<>>

(***************************************************************************)
(* The signer whitelist (whitelist.rs).  A TrustedSigner is its id and its *)
(* public_key, an Option held as a sequence of length 0 or 1.              *)
(***************************************************************************)
TrustedSigner(id, public_key) == [id |-> id, public_key |-> public_key]

\* TrustedSigner::new and TrustedSigner::with_key
trusted_signer_new(id) == TrustedSigner(id, <<>>)
with_key(id, public_key) == TrustedSigner(id, <<HexEncode(as_bytes(public_key))>>)

\* str::to_lowercase on ASCII text.
to_lowercase(chars) ==
    [i \in 1..Len(chars) |-> IF chars[i] \in 65..90 THEN chars[i] + 32 ELSE chars[i]]

is_trusted(signers, signer_id) ==
    \E i \in 1..Len(signers) : signers[i].id = signer_id

\* iter().find(|s| s.id == signer_id): the first match, as an Option.
RECURSIVE get_signer(_, _)
get_signer(signers, signer_id) ==
    IF signers = <<>> THEN <<>>
    ELSE IF Head(signers).id = signer_id THEN <<Head(signers)>>
    ELSE get_signer(Tail(signers), signer_id)

add_signer(signers, signer) ==
    IF ~is_trusted(signers, signer.id) THEN Append(signers, signer) ELSE signers

\* retain(|s| s.id != signer_id)
RECURSIVE remove_signer(_, _)
remove_signer(signers, signer_id) ==
    IF signers = <<>> THEN <<>>
    ELSE IF Head(signers).id = signer_id THEN remove_signer(Tail(signers), signer_id)
    ELSE <<Head(signers)>> \o remove_signer(Tail(signers), signer_id)

\* A strict validation that trusts a listed id whatever key is presented.
validate_signer_key_strict_IdOnly(signers, signer_id, public_key) ==
    IF get_signer(signers, signer_id) = <<>> THEN "Err(UntrustedSigner)"
    ELSE IF get_signer(signers, signer_id)[1].public_key = <<>>
    THEN "Err(PolicyViolation)"
    ELSE "Ok"

\* SignerWhitelist::validate_signer_key_strict
validate_signer_key_strict(signers, signer_id, public_key) ==
    LET signer == get_signer(signers, signer_id)
        actual_key_hex == HexEncode(as_bytes(public_key))
    IN IF signer = <<>> THEN "Err(UntrustedSigner)"
       ELSE IF signer[1].public_key = <<>> THEN "Err(PolicyViolation)"
       ELSE IF to_lowercase(actual_key_hex) # to_lowercase(signer[1].public_key[1])
       THEN "Err(UntrustedSigner)"
       ELSE "Ok"

\* The signers a caller adds: without a binding, with their own key in
\* lower-case or upper-case hex, or with the other signer's key.
OfferedSigners ==
    {trusted_signer_new(id) : id \in SignerIds}
    \cup {with_key(id, key) : id \in SignerIds, key \in VerifyingKeys}
    \cup {TrustedSigner(id, <<UpperHex(HexEncode(as_bytes(VerifyingKeyOf(OwnKey(id)))))>>) :
             id \in SignerIds}

\* A whitelist file that lists the id "a" twice, with two keys.
LoadedSigners ==
    <<with_key(<<97>>, VerifyingKeyOf("k2")), with_key(<<97>>, VerifyingKeyOf("k1"))>>

NoWlCheck == [op |-> "none", signer_id |-> <<>>, key |-> NoKey, result |-> "none"]

InitWhitelist ==
    /\ IdleCore /\ IdleBreaker /\ IdleLimiter /\ IdleWorkflow
    /\ whitelist = <<>>
    /\ wlCheck = NoWlCheck

AddSigner ==
    /\ \E signer \in OfferedSigners : whitelist' = add_signer(whitelist, signer)
    /\ wlCheck' = NoWlCheck
    /\ UNCHANGED <<coreVars, breakerVars, limiterVars, workflowVars>>

RemoveSigner ==
    /\ \E signer_id \in SignerIds :
          /\ whitelist' = remove_signer(whitelist, signer_id)
          /\ wlCheck' = [op |-> "remove_signer", signer_id |-> signer_id, key |-> NoKey,
                         result |-> IF Len(whitelist') < Len(whitelist)
                                    THEN "true" ELSE "false"]
    /\ UNCHANGED <<coreVars, breakerVars, limiterVars, workflowVars>>

\* SignerWhitelist::from_json
LoadWhitelist ==
    /\ whitelist = <<>>
    /\ whitelist' = LoadedSigners
    /\ wlCheck' = NoWlCheck
    /\ UNCHANGED <<coreVars, breakerVars, limiterVars, workflowVars>>

ValidateSignerKeyStrict ==
    /\ \E signer_id \in SignerIds, public_key \in VerifyingKeys :
          wlCheck' = [op |-> "validate_signer_key_strict", signer_id |-> signer_id,
                      key |-> public_key,
                      result |-> validate_signer_key_strict(whitelist, signer_id,
                                                            public_key)]
    /\ UNCHANGED <<whitelist, coreVars, breakerVars, limiterVars, workflowVars>>

NextWhitelist ==
    \/ AddSigner
    \/ RemoveSigner
    \/ LoadWhitelist
    \/ ValidateSignerKeyStrict

SpecWhitelist == InitWhitelist /\ [][NextWhitelist]_vars

\* The position of the first entry of the whitelist with this id; 0 if none.
FirstListed(signers, signer_id) ==
    IF is_trusted(signers, signer_id)
    THEN CHOOSE i \in 1..Len(signers) :
            /\ signers[i].id = signer_id
            /\ \A j \in 1..(i - 1) : signers[j].id # signer_id
    ELSE 0

\* The hex text bound at that entry equals, letter case aside, the hex of
\* the key.
BindingMatches(signer, public_key) ==
    /\ signer.public_key # <<>>
    /\ to_lowercase(signer.public_key[1]) = HexEncode(as_bytes(public_key))

\* C21: validate_signer_key_strict accepts only a signer whose id is in the
\* whitelist, who has a public key bound, and whose bound hex equals the
\* hex of the presented key case-insensitively; with the id listed, a
\* presented key that differs from the binding is rejected, and a matching
\* one is accepted.
C21_StrictAcceptsOnlyBoundKey ==
    wlCheck.op = "validate_signer_key_strict" =>
        LET i == FirstListed(whitelist, wlCheck.signer_id)
        IN /\ wlCheck.result = "Ok" =>
                (i # 0 /\ BindingMatches(whitelist[i], wlCheck.key))
           /\ (i # 0 /\ ~BindingMatches(whitelist[i], wlCheck.key)) =>
                wlCheck.result \in {"Err(UntrustedSigner)", "Err(PolicyViolation)"}
           /\ (i # 0 /\ BindingMatches(whitelist[i], wlCheck.key)) =>
                wlCheck.result = "Ok"

\* A listed signer with a bound key presented another key and was refused.
C21_ListedSignerWrongKeyRefused ==
    /\ wlCheck.op = "validate_signer_key_strict"
    /\ wlCheck.result = "Err(UntrustedSigner)"
    /\ wlCheck.signer_id = <<97>>
    /\ wlCheck.key = VerifyingKeyOf("k2")
    /\ whitelist = <<with_key(<<97>>, VerifyingKeyOf("k1"))>>

(***************************************************************************)
(* SigningWorkflow (multiparty.rs).  A SignerRequirement is its signer_id  *)
(* and its required flag.                                                  *)
(***************************************************************************)
SignerRequirement(signer_id, required) ==
    [signer_id |-> signer_id, required |-> required]

InProgress(signed_count, total) ==
    [kind |-> "InProgress", signed_count |-> signed_count, total |-> total]
Completed == [kind |-> "Completed", signed_count |-> 0, total |-> 0]
Rejected == [kind |-> "Rejected", signed_count |-> 0, total |-> 0]

\* SigningWorkflow::new
workflow_new(order, required_signers) ==
    [order |-> order, required_signers |-> required_signers,
     status |-> InProgress(0, Len(required_signers))]

\* required_signers.iter().find(|r| r.signer_id == id), as an Option.
RECURSIVE find_requirement(_, _)
find_requirement(required_signers, signer_id) ==
    IF required_signers = <<>> THEN <<>>
    ELSE IF Head(required_signers).signer_id = signer_id THEN <<Head(required_signers)>>
    ELSE find_requirement(Tail(required_signers), signer_id)

\* SigningWorkflow::add_signature: [result, workflow]
workflow_add_signature(wf, signer_id) ==
    IF find_requirement(wf.required_signers, signer_id) = <<>>
    THEN [result |-> "Err(SignatureFailure)", workflow |-> wf]
    ELSE IF wf.status.kind # "InProgress"
    THEN [result |-> "Err(SignatureFailure)", workflow |-> wf]
    ELSE IF wf.status.signed_count + 1 >= wf.status.total
    THEN [result |-> "Ok", workflow |-> [wf EXCEPT !.status = Completed]]
    ELSE [result |-> "Ok",
          workflow |-> [wf EXCEPT !.status =
                           InProgress(wf.status.signed_count + 1, wf.status.total)]]

\* The first id of the order vector that has a requirement, as an Option.
RECURSIVE first_in_order(_, _)
first_in_order(order, required_signers) ==
    IF order = <<>> THEN <<>>
    ELSE IF find_requirement(required_signers, Head(order)) # <<>>
    THEN find_requirement(required_signers, Head(order))
    ELSE first_in_order(Tail(order), required_signers)

\* iter().find(|r| r.required), as an Option.
RECURSIVE first_required(_)
first_required(required_signers) ==
    IF required_signers = <<>> THEN <<>>
    ELSE IF Head(required_signers).required THEN <<Head(required_signers)>>
    ELSE first_required(Tail(required_signers))

\* SigningWorkflow::get_next_signer, as an Option.
get_next_signer(wf) ==
    IF wf.order.kind = "Ordered"
    THEN first_in_order(wf.order.list, wf.required_signers)
    ELSE IF wf.order.kind = "Unordered" THEN first_required(wf.required_signers)
    ELSE SubSeq(wf.required_signers, 1, 1)

\* The requirement lists of the workflows: "a" and "b", every one required
\* or "b" optional, in either order, or "a" alone.
RequirementLists ==
    {<<SignerRequirement(<<97>>, TRUE), SignerRequirement(<<98>>, r)>> : r \in BOOLEAN}
    \cup {<<SignerRequirement(<<98>>, TRUE), SignerRequirement(<<97>>, TRUE)>>,
          <<SignerRequirement(<<97>>, TRUE)>>}

\* The last add_signature call, and the set of signers of the calls
\* accepted so far.
NoWfOp == [op |-> "none", signer |-> <<>>, result |-> "none", accepted |-> {}]

InitWorkflow ==
    /\ IdleCore /\ IdleWhitelist /\ IdleBreaker /\ IdleLimiter
    /\ \E order \in SigningOrders, required_signers \in RequirementLists :
          workflow = workflow_new(order, required_signers)
    /\ wfOp = NoWfOp

WorkflowAddSignature ==
    /\ \E signer_id \in SignerIds \cup {<<99>>} :
          LET r == workflow_add_signature(workflow, signer_id)
          IN /\ workflow' = r.workflow
             /\ wfOp' = [op |-> "add_signature", signer |-> signer_id,
                         result |-> r.result,
                         accepted |-> IF r.result = "Ok"
                                      THEN wfOp.accepted \cup {signer_id}
                                      ELSE wfOp.accepted]
    /\ UNCHANGED <<coreVars, whitelistVars, breakerVars, limiterVars>>

\* The host rejects the workflow: status is a public field.
RejectWorkflow ==
    /\ workflow.status.kind = "InProgress"
    /\ workflow' = [workflow EXCEPT !.status = Rejected]
    /\ wfOp' = [wfOp EXCEPT !.op = "reject", !.signer = <<>>, !.result = "none"]
    /\ UNCHANGED <<coreVars, whitelistVars, breakerVars, limiterVars>>

NextWorkflow ==
    \/ WorkflowAddSignature
    \/ RejectWorkflow

SpecWorkflow == InitWorkflow /\ [][NextWorkflow]_vars

\* C29: the status is Completed only when every signer the workflow
\* requires has had a signature accepted; an add by a signer whose signature was already
\* accepted does not change the status; and no add is accepted once the
\* status is Completed or Rejected.
C29_CompletedOnlyWhenAllSigned ==
    /\ [](workflow.status.kind = "Completed" =>
            \A i \in 1..Len(workflow.required_signers) :
                workflow.required_signers[i].required =>
                    workflow.required_signers[i].signer_id \in wfOp.accepted)
    /\ [][ (wfOp'.op = "add_signature" /\ wfOp'.signer \in wfOp.accepted) =>
               workflow'.status = workflow.status ]_vars
    /\ [][ (wfOp'.op = "add_signature" /\ workflow.status.kind # "InProgress") =>
               wfOp'.result # "Ok" ]_vars

\* The ids of the order vector whose signature has not been accepted.
RECURSIVE Unsigned(_)
Unsigned(order) ==
    IF order = <<>> THEN <<>>
    ELSE IF Head(order) \in wfOp.accepted THEN Unsigned(Tail(order))
    ELSE <<Head(order)>> \o Unsigned(Tail(order))

\* C30: in Ordered mode, while the workflow is in progress, get_next_signer
\* returns the requirement of the first signer of the order vector whose
\* signature has not been accepted.
C30_NextSignerIsFirstUnsigned ==
    (workflow.order.kind = "Ordered" /\ workflow.status.kind = "InProgress") =>
        get_next_signer(workflow) =
            first_in_order(Unsigned(workflow.order.list), workflow.required_signers)

(***************************************************************************)
(* CircuitBreaker (resource_limits.rs).  last_failure_time is an Option,   *)
(* held as a sequence of length 0 or 1; Instants and Durations are whole   *)
(* ticks of the clock.                                                     *)
(***************************************************************************)
Threads == {1, 2}

\* CircuitBreaker::new
circuit_breaker_new(failure_threshold, timeout) ==
    [state |-> "Closed", failure_count |-> 0, last_failure_time |-> <<>>,
     failure_threshold |-> failure_threshold, timeout |-> timeout]

\* CircuitBreaker::check at the instant now, the state lock held throughout:
\* [result, breaker]
check(b, instant) ==
    IF b.state = "Closed"
    THEN IF b.failure_count >= b.failure_threshold
         THEN [result |-> "Err(PolicyViolation)",
               breaker |-> [b EXCEPT !.state = "Open",
                                     !.last_failure_time = <<instant>>]]
         ELSE [result |-> "Ok", breaker |-> b]
    ELSE IF b.state = "Open"
    THEN IF /\ b.last_failure_time # <<>>
            /\ instant - b.last_failure_time[1] >= b.timeout
         THEN [result |-> "Ok",
               breaker |-> [b EXCEPT !.state = "HalfOpen", !.failure_count = 0]]
         ELSE [result |-> "Err(PolicyViolation)", breaker |-> b]
    ELSE [result |-> "Ok", breaker |-> b]

\* CircuitBreaker::record_success, the state lock held throughout.
record_success(b) ==
    IF b.state = "HalfOpen" THEN [b EXCEPT !.state = "Closed", !.failure_count = 0]
    ELSE IF b.state = "Closed" THEN [b EXCEPT !.failure_count = 0]
    ELSE b

\* record_failure, first statement: failure_count.fetch_add(1).
fetch_add(b) == [b EXCEPT !.failure_count = @ + 1]

\* record_failure, second statement: *last_time = Some(Instant::now()).
set_last_failure_time(b, instant) == [b EXCEPT !.last_failure_time = <<instant>>]

\* A threshold step that never opens the breaker.
open_if_threshold_Never(b, count) == b

\* record_failure, third statement: the threshold test with its double check.
open_if_threshold(b, count) ==
    IF count >= b.failure_threshold /\ b.state = "Closed"
    THEN [b EXCEPT !.state = "Open"]
    ELSE b

\* record_failure, last statement: a failure in half-open reopens.
reopen_if_half_open(b) ==
    IF b.state = "HalfOpen" THEN [b EXCEPT !.state = "Open"] ELSE b

\* A thread between calls.
Idle == [pc |-> "idle", count |-> 0]

\* The last completed call (what, its outcome, the instant of the call and
\* the state it found) and the history of the calls: record_failure calls
\* begun and completed, whether a success was recorded, whether the breaker
\* has gone half-open, when it last opened, and the requests admitted in
\* the present half-open period.
NoBrOp ==
    [op |-> "none", result |-> "none", at |-> 0, found |-> "none",
     opened_at |-> 0, started |-> 0, done |-> 0, succeeded |-> FALSE,
     reset |-> FALSE, trials |-> 0]

\* The instant the breaker opened, when a step has opened it.
OpenedAt(before, after, instant, opened_at) ==
    IF before.state # "Open" /\ after.state = "Open" THEN instant ELSE opened_at

InitBreaker ==
    /\ IdleCore /\ IdleWhitelist /\ IdleLimiter /\ IdleWorkflow
    /\ clock = 0
    /\ \E failure_threshold \in {1, 2}, timeout \in {1, 2} :
          breaker = circuit_breaker_new(failure_threshold, timeout)
    /\ callers = [t \in Threads |-> Idle]
    /\ brOp = NoBrOp

ClockTick ==
    /\ clock < MaxClock
    /\ clock' = clock + 1
    /\ UNCHANGED <<breaker, callers, brOp, coreVars, whitelistVars, limiterVars,
                   workflowVars>>

CheckCall ==
    /\ \E t \in Threads :
          /\ callers[t].pc = "idle"
          /\ breaker.state = "HalfOpen" => brOp.trials < MaxTrials
          /\ LET r == check(breaker, clock)
             IN /\ breaker' = r.breaker
                /\ brOp' = [brOp EXCEPT
                             !.op = "check", !.result = r.result, !.at = clock,
                             !.found = breaker.state,
                             !.opened_at = OpenedAt(breaker, r.breaker, clock, @),
                             !.reset = @ \/ r.breaker.state = "HalfOpen",
                             !.trials = IF r.breaker.state = "HalfOpen" THEN @ + 1
                                        ELSE @]
    /\ UNCHANGED <<clock, callers, coreVars, whitelistVars, limiterVars, workflowVars>>

RecordSuccess ==
    /\ \E t \in Threads : callers[t].pc = "idle"
    /\ breaker' = record_success(breaker)
    /\ brOp' = [brOp EXCEPT !.op = "record_success", !.result = "none", !.at = clock,
                            !.found = breaker.state, !.succeeded = TRUE,
                            !.trials = IF breaker.state = "HalfOpen" THEN 0 ELSE @]
    /\ UNCHANGED <<clock, callers, coreVars, whitelistVars, limiterVars, workflowVars>>

RecordFailureCount ==
    /\ brOp.started < MaxFailures
    /\ \E t \in Threads :
          /\ callers[t].pc = "idle"
          /\ breaker' = fetch_add(breaker)
          /\ callers' = [callers EXCEPT
                           ![t] = [pc |-> "stamp", count |-> breaker'.failure_count]]
    /\ brOp' = [brOp EXCEPT !.started = @ + 1]
    /\ UNCHANGED <<clock, coreVars, whitelistVars, limiterVars, workflowVars>>

RecordFailureStamp ==
    /\ \E t \in Threads :
          /\ callers[t].pc = "stamp"
          /\ breaker' = set_last_failure_time(breaker, clock)
          /\ callers' = [callers EXCEPT ![t].pc = "threshold"]
    /\ UNCHANGED <<clock, brOp, coreVars, whitelistVars, limiterVars, workflowVars>>

RecordFailureThreshold ==
    /\ \E t \in Threads :
          /\ callers[t].pc = "threshold"
          /\ breaker' = open_if_threshold(breaker, callers[t].count)
          /\ callers' = [callers EXCEPT ![t].pc = "half_open"]
    /\ brOp' = [brOp EXCEPT !.opened_at = OpenedAt(breaker, breaker', clock, @)]
    /\ UNCHANGED <<clock, coreVars, whitelistVars, limiterVars, workflowVars>>

RecordFailureDone ==
    /\ \E t \in Threads :
          /\ callers[t].pc = "half_open"
          /\ breaker' = reopen_if_half_open(breaker)
          /\ callers' = [callers EXCEPT ![t] = Idle]
    /\ brOp' = [brOp EXCEPT !.op = "record_failure", !.result = "none", !.at = clock,
                            !.found = breaker.state, !.done = @ + 1,
                            !.opened_at = OpenedAt(breaker, breaker', clock, @),
                            !.trials = IF breaker.state = "HalfOpen" THEN 0 ELSE @]
    /\ UNCHANGED <<clock, coreVars, whitelistVars, limiterVars, workflowVars>>

NextBreaker ==
    \/ ClockTick
    \/ CheckCall
    \/ RecordSuccess
    \/ RecordFailureCount
    \/ RecordFailureStamp
    \/ RecordFailureThreshold
    \/ RecordFailureDone

SpecBreaker == InitBreaker /\ [][NextBreaker]_vars

\* No success has been recorded and the breaker has not gone half-open: it
\* is in the period that began with the closed breaker CircuitBreaker::new
\* returned.
FirstClosedPeriod == ~brOp.succeeded /\ ~brOp.reset

\* Less than timeout has passed since the last failure was stamped.
WithinTimeout ==
    /\ breaker.last_failure_time # <<>>
    /\ clock - breaker.last_failure_time[1] < breaker.timeout

\* C22: on a closed breaker with no success in between, under every
\* interleaving of the statements of concurrent record_failure calls with
\* check calls, every failure is counted exactly once; once
\* failure_threshold record_failure calls have completed the breaker is
\* open; it stays open while less than timeout has passed since the last
\* failure, and a check that finds it open and leaves it open is refused.
C22_ThresholdFailuresOpenBreaker ==
    /\ [](FirstClosedPeriod => breaker.failure_count = brOp.started)
    /\ []((FirstClosedPeriod /\ brOp.done >= breaker.failure_threshold) =>
             breaker.state = "Open")
    /\ []((brOp.op = "check" /\ brOp.found = "Open" /\ breaker.state = "Open") =>
             brOp.result = "Err(PolicyViolation)")
    /\ [][ ( /\ FirstClosedPeriod
             /\ brOp.done >= breaker.failure_threshold
             /\ WithinTimeout ) => breaker'.state = "Open" ]_vars

\* Two record_failure calls have completed on a breaker of threshold 2, the
\* second begun before the first had completed, and a check was refused.
C22_TwoFailuresThenRefused ==
    /\ FirstClosedPeriod
    /\ breaker.failure_threshold = 2
    /\ brOp.started = 2 /\ brOp.done = 2
    /\ breaker.state = "Open"
    /\ brOp.op = "check"
    /\ brOp.result = "Err(PolicyViolation)"
    /\ brOp.opened_at < brOp.at

\* C27: in the half-open state one request is admitted; until its success
\* or failure is recorded no further check is admitted.
C27_OneTrialInHalfOpen ==
    breaker.state = "HalfOpen" => brOp.trials <= 1

\* C28: a check that finds the breaker open is admitted exactly when at
\* least timeout has passed since the breaker opened, whatever calls
\* arrived while it was open.
C28_OpenForTimeoutAndNoLonger ==
    (brOp.op = "check" /\ brOp.found = "Open") =>
        (brOp.result = "Ok" <=> brOp.at >= brOp.opened_at + breaker.timeout)

(***************************************************************************)
(* RateLimiter (resource_limits.rs).  tokens is an AtomicU64; a value of   *)
(* 2^63 or more is written as the negative number with the same 64 bits,   *)
(* so that 2^64 - 1 is -1, and is compared as the unsigned value it is.    *)
(***************************************************************************)
\* a < b for two u64 values.
U64Less(a, b) == IF (a < 0) = (b < 0) THEN a < b ELSE b < 0

U64Min(a, b) == IF U64Less(a, b) THEN a ELSE b

\* current + tokens_to_add leaves the range of u64.
U64AddOverflows(a, b) == a < 0 /\ a + b >= 0

\* RateLimiter::new at the instant given; poisoned tells whether a thread
\* has panicked holding the last_refill mutex.
rate_limiter_new(capacity, refill_rate, instant) ==
    [tokens |-> capacity, capacity |-> capacity, refill_rate |-> refill_rate,
     last_refill |-> instant, poisoned |-> FALSE]

\* refill_tokens: the tokens to add after elapsed seconds.
tokens_to_add(lim, elapsed) == U64Min(elapsed * lim.refill_rate, lim.capacity)

\* refill_tokens: the value it stores, from the value it loaded.
new_tokens(lim, current, elapsed) ==
    U64Min(current + tokens_to_add(lim, elapsed), lim.capacity)

\* try_acquire after its load: the test of the loaded value, and
\* tokens.fetch_sub(1), which wraps below zero.
try_acquire_take(lim, tokens) ==
    IF tokens # 0
    THEN [result |-> "Ok", limiter |-> [lim EXCEPT !.tokens = @ - 1]]
    ELSE [result |-> "Err(PolicyViolation)", limiter |-> lim]

\* A thread between calls; loaded is the value its last load returned.
Resting == [pc |-> "idle", loaded |-> 0]

\* Where each thread stands, and the history since the last refill: the
\* tokens the limiter held after it, the acquisitions granted since, the
\* calls begun in all, and the outcome of the last completed call.
NoAcquirers ==
    [threads |-> [t \in Threads |-> Resting], held |-> 0, granted |-> 0,
     begun |-> 0, result |-> "none"]

InitLimiter ==
    /\ IdleCore /\ IdleWhitelist /\ IdleWorkflow
    /\ clock = 0 /\ breaker = <<>> /\ callers = <<>> /\ brOp = <<>>
    /\ \E capacity \in {1, 2} :
          /\ limiter = rate_limiter_new(capacity, 1, 0)
          /\ acquirers = [NoAcquirers EXCEPT !.held = capacity]

LimiterTick ==
    /\ clock < MaxClock
    /\ clock' = clock + 1
    /\ UNCHANGED <<limiter, acquirers, breaker, callers, brOp, coreVars,
                   whitelistVars, workflowVars>>

\* try_acquire begins: refill_tokens takes the last_refill mutex and, when a
\* whole second has passed, loads the tokens.  On a poisoned mutex, and on
\* an overflowing sum in a build that checks overflow, the thread panics.
AcquireRefillLoad ==
    /\ acquirers.begun < MaxAcquires
    /\ \E t \in Threads :
          /\ acquirers.threads[t].pc = "idle"
          /\ \A u \in Threads : acquirers.threads[u].pc # "refill"
          /\ \/ /\ limiter.poisoned
                /\ acquirers' = [acquirers EXCEPT !.threads[t].pc = "panicked",
                                                  !.begun = @ + 1,
                                                  !.result = "panic"]
                /\ limiter' = limiter
             \/ /\ ~limiter.poisoned
                /\ clock - limiter.last_refill = 0
                /\ acquirers' = [acquirers EXCEPT !.threads[t].pc = "load",
                                                  !.begun = @ + 1]
                /\ limiter' = limiter
             \/ /\ ~limiter.poisoned
                /\ clock - limiter.last_refill > 0
                /\ acquirers' = [acquirers EXCEPT
                                   !.threads[t] = [pc |-> "refill",
                                                   loaded |-> limiter.tokens],
                                   !.begun = @ + 1]
                /\ limiter' = limiter
             \/ /\ ~limiter.poisoned
                /\ clock - limiter.last_refill > 0
                /\ U64AddOverflows(limiter.tokens,
                                   tokens_to_add(limiter, clock - limiter.last_refill))
                /\ acquirers' = [acquirers EXCEPT !.threads[t].pc = "panicked",
                                                  !.begun = @ + 1,
                                                  !.result = "panic"]
                /\ limiter' = [limiter EXCEPT !.poisoned = TRUE]
    /\ UNCHANGED <<clock, breaker, callers, brOp, coreVars, whitelistVars,
                   workflowVars>>

\* refill_tokens stores the new value and the instant, and drops the mutex.
AcquireRefillStore ==
    /\ \E t \in Threads :
          /\ acquirers.threads[t].pc = "refill"
          /\ limiter' = [limiter EXCEPT
                           !.tokens = new_tokens(limiter, acquirers.threads[t].loaded,
                                                 clock - limiter.last_refill),
                           !.last_refill = clock]
          /\ acquirers' = [acquirers EXCEPT !.threads[t].pc = "load",
                                            !.held = limiter'.tokens,
                                            !.granted = 0]
    /\ UNCHANGED <<clock, breaker, callers, brOp, coreVars, whitelistVars,
                   workflowVars>>

\* tokens.load
AcquireLoad ==
    /\ \E t \in Threads :
          /\ acquirers.threads[t].pc = "load"
          /\ acquirers' = [acquirers EXCEPT
                             !.threads[t] = [pc |-> "take", loaded |-> limiter.tokens]]
    /\ UNCHANGED <<limiter, clock, breaker, callers, brOp, coreVars, whitelistVars,
                   workflowVars>>

\* The test and tokens.fetch_sub(1), or the refusal.
AcquireTake ==
    /\ \E t \in Threads :
          /\ acquirers.threads[t].pc = "take"
          /\ LET r == try_acquire_take(limiter, acquirers.threads[t].loaded)
             IN /\ limiter' = r.limiter
                /\ acquirers' = [acquirers EXCEPT
                                   !.threads[t] = Resting,
                                   !.granted = IF r.result = "Ok" THEN @ + 1 ELSE @,
                                   !.result = r.result]
    /\ UNCHANGED <<clock, breaker, callers, brOp, coreVars, whitelistVars,
                   workflowVars>>

NextLimiter ==
    \/ LimiterTick
    \/ AcquireRefillLoad
    \/ AcquireRefillStore
    \/ AcquireLoad
    \/ AcquireTake

SpecLimiter == InitLimiter /\ [][NextLimiter]_vars

\* C25: between refills the acquisitions granted do not exceed the tokens
\* the limiter held, nor the capacity, and the token counter is never
\* below zero or above the capacity.
C25_NeverGrantsMoreThanHeld ==
    /\ acquirers.granted <= acquirers.held
    /\ acquirers.granted <= limiter.capacity
    /\ limiter.tokens >= 0
    /\ limiter.tokens <= limiter.capacity

\* A thread has panicked in refill_tokens on the overflowing sum.
LimiterPanicked == acquirers.result = "panic" /\ limiter.poisoned

====
